---- MODULE Spec2Model ----
(***************************************************************************)
(* Business-card OCR pipeline: text correction (src/src/ocr.py), field     *)
(* extraction (src/src/parser.py), post-processing                         *)
(* (src/src/postprocessing.py), the escalation policy and the orchestrator *)
(* (src/src/pipeline.py).                                                  *)
(*                                                                         *)
(* Conventions.  A Python str is a sequence of one-character strings; None *)
(* and '' are both the empty sequence (the code only tests truthiness).    *)
(* A dict is a function whose DOMAIN is its key set, {} and None are the   *)
(* function with the empty domain.  A confidence in [0,1] is an integer    *)
(* number of 1/10000 (0.70 is 7000); the per-field scores of the scorer    *)
(* are hundredths.  A logger call is one "level: message" string appended  *)
(* to log.  Wall-clock values (processing_time_ms, processed_at) are left  *)
(* out of the returned dicts.                                              *)
(***************************************************************************)
EXTENDS Integers, Sequences, FiniteSets, TLC

VARIABLES
    gemini_ocr,        \* self.gemini_ocr: "None", or "GeminiOCR" (configured and available)
    pc,                \* position inside process_image
    image_path,        \* argument image_path of the running process_image call
    enrich,            \* argument enrich
    force_gemini,      \* argument force_gemini
    ocr_method,        \* local ocr_method
    ocr_result,        \* local ocr_result; <<>> while ocr_confidence is unbound
    ocr_confidence,    \* local ocr_confidence, 1/10000
    raw_text,          \* local raw_text
    parsed_contacts,   \* local parsed_contacts (list of ContactData dicts)
    cleaned_contact,   \* local cleaned_contact
    gemini_result,     \* local gemini_result (<<>> for None)
    final_contact,     \* local final_contact (<<>> for None)
    company_enrichment,\* local company_enrichment
    field_confidence,  \* local field_confidence
    result,            \* the dict process_image returned (<<>> while it runs)
    log,               \* logger records written by the running call
    vlm_calls,         \* calls of gemini_ocr.extract made by the running call
    ocr_calls,         \* calls of ocr.extract_text made by the running call
    before_merge,      \* history: final_contact as the enrichment steps found it
    bpc,               \* position inside process_batch
    image_paths,       \* process_batch: argument image_paths
    results,           \* process_batch: local results
    success_count,     \* process_batch: local success_count
    batch_result,      \* the dict process_batch returned (<<>> while it runs)
    decision,          \* what _should_use_gemini_fallback returned
    arg_text,          \* argument of _correct_ocr_text / _extract_phones
    corrected_once,    \* _correct_ocr_text(arg_text)
    corrected_twice,   \* _correct_ocr_text(_correct_ocr_text(arg_text))
    extracted_phones,  \* _extract_phones(arg_text)
    arg_ocr_results,   \* argument ocr_results of parse (<<>> for None)
    arg_lines,         \* argument lines of _extract_name
    parsed_contact,    \* the ContactData parse(arg_text, arg_ocr_results) returned
    extracted_name,    \* _extract_name(arg_lines, arg_text)
    extracted_website, \* _extract_website(arg_text)
    api_keys,          \* the researcher's credentials (TRUE: set)
    api_answers,       \* how each of the researcher's requests is answered
    arg_contact,       \* argument contact of FreeLeadResearcher.enrich
    enriched,          \* enrich(arg_contact).to_dict()
    attempted,         \* history: the requests enrich(arg_contact) made
    arg_raw_lines,     \* argument lines of OCRExtractor._postprocess_text
    cleaned_lines,     \* _postprocess_text(arg_raw_lines)
    upload_folder,     \* Config.UPLOAD_FOLDER: file name -> bytes stored (<<>>: no file)
    global_pipeline,   \* routes._pipeline: 0 for None, else the instance
    constructed,       \* CardResearchPipeline instances constructed so far
    requests,          \* the requests being served: position and locals of each
    removed,           \* history: the files os.remove deleted, and for which request
    batch_size,        \* batch_processor.batch_size
    active_jobs        \* batch_processor.active_jobs

args == <<image_path, enrich, force_gemini>>
locals == <<ocr_method, ocr_result, ocr_confidence, raw_text, parsed_contacts,
            cleaned_contact, gemini_result, final_contact, company_enrichment,
            field_confidence, vlm_calls, ocr_calls, before_merge>>
pvars == <<pc, args, locals, result, log>>
bvars == <<bpc, image_paths, results, success_count, batch_result>>
svars == <<upload_folder, global_pipeline, constructed, requests, removed, batch_size,
           active_jobs>>
tvars == <<arg_raw_lines, cleaned_lines, svars>>
rvars == <<api_keys, api_answers, arg_contact, enriched, attempted, tvars>>
xvars == <<arg_ocr_results, arg_lines, parsed_contact, extracted_name, extracted_website,
           rvars>>
fvars == <<decision, arg_text, corrected_once, corrected_twice, extracted_phones, xvars>>
vars == <<gemini_ocr, pvars, bvars, fvars>>

\* no call of the researcher on its own is under way
\* the web layer serves no request
NoRequest ==
    /\ upload_folder = <<>> /\ global_pipeline = 0 /\ constructed = 0
    /\ requests = <<>> /\ removed = {} /\ batch_size = 20 /\ active_jobs = <<>>
NoPostprocessCall == arg_raw_lines = <<>> /\ cleaned_lines = <<>> /\ NoRequest
NoResearcherCall ==
    /\ api_keys = <<>> /\ api_answers = <<>> /\ arg_contact = <<>>
    /\ enriched = <<>> /\ attempted = {}
    /\ NoPostprocessCall
\* no call of the parser's functions is under way
NoParserCall ==
    /\ arg_ocr_results = <<>> /\ arg_lines = <<>> /\ parsed_contact = <<>>
    /\ extracted_name = <<>> /\ extracted_website = <<>>
    /\ NoResearcherCall

-----------------------------------------------------------------------------
(* Characters and strings *)

Digit == {"0", "1", "2", "3", "4", "5", "6", "7", "8", "9"}
LowerSeq == <<"a","b","c","d","e","f","g","h","i","j","k","l","m",
              "n","o","p","q","r","s","t","u","v","w","x","y","z">>
UpperSeq == <<"A","B","C","D","E","F","G","H","I","J","K","L","M",
              "N","O","P","Q","R","S","T","U","V","W","X","Y","Z">>
Lower == {LowerSeq[i] : i \in DOMAIN LowerSeq}
Upper == {UpperSeq[i] : i \in DOMAIN UpperSeq}
Letter == Lower \cup Upper
WordCh == Letter \cup Digit \cup {"_"}
Space == {" ", "\t", "\n"}

ToLowerCh(c) ==
    IF c \in Upper THEN LowerSeq[CHOOSE i \in DOMAIN UpperSeq : UpperSeq[i] = c]
    ELSE c
ToUpperCh(c) ==
    IF c \in Lower THEN UpperSeq[CHOOSE i \in DOMAIN LowerSeq : LowerSeq[i] = c]
    ELSE c
StrLower(s) == [i \in DOMAIN s |-> ToLowerCh(s[i])]

StrLowerAll(words) == [k \in DOMAIN words |-> StrLower(words[k])]

\* F(x) \o F(y) \o ... for the members x, y, ... of list, in order
ConcatMap(list, F(_)) ==
    LET f[k \in 1..(Len(list) + 1)] ==
          IF k > Len(list) THEN <<>> ELSE F(list[k]) \o f[k + 1]
    IN f[1]

\* the least and the greatest member of a set of positions, 0 for the empty set
LeastOrZero(S) == IF S = {} THEN 0 ELSE CHOOSE i \in S : \A j \in S : i <= j
GreatestOrZero(S) == IF S = {} THEN 0 ELSE CHOOSE i \in S : \A j \in S : j <= i

Min(a, b) == IF a < b THEN a ELSE b
Max(a, b) == IF a > b THEN a ELSE b

\* number of characters of s that lie in class
CountIn(s, class) == Cardinality({i \in DOMAIN s : s[i] \in class})

\* sub occurs in s at position i (1-based)
OccursAt(s, sub, i) ==
    /\ i >= 1
    /\ i + Len(sub) - 1 <= Len(s)
    /\ \A k \in 1..Len(sub) : s[i + k - 1] = sub[k]
\* Python: sub in s
Contains(s, sub) == \E i \in 1..(Len(s) - Len(sub) + 1) : OccursAt(s, sub, i)

\* index just after the maximal run of class characters that starts at i
RECURSIVE RunEnd(_, _, _)
RunEnd(s, i, class) ==
    IF i <= Len(s) /\ s[i] \in class THEN RunEnd(s, i + 1, class) ELSE i

\* Python: s.strip()
RECURSIVE LStrip(_)
LStrip(s) == IF s # <<>> /\ Head(s) \in Space THEN LStrip(Tail(s)) ELSE s
RECURSIVE RStrip(_)
RStrip(s) ==
    IF s # <<>> /\ s[Len(s)] \in Space THEN RStrip(SubSeq(s, 1, Len(s) - 1)) ELSE s
Strip(s) == RStrip(LStrip(s))

\* Python: s.split() -- the list of maximal runs of non-whitespace characters
RECURSIVE SplitWS(_)
SplitWS(s) ==
    LET t == LStrip(s) IN
    IF t = <<>> THEN <<>>
    ELSE LET e == RunEnd(t, 1, {t[i] : i \in DOMAIN t} \ Space)
         IN <<SubSeq(t, 1, e - 1)>> \o SplitWS(SubSeq(t, e, Len(t)))

\* Python: sep.join(parts)
RECURSIVE Join(_, _)
Join(parts, sep) ==
    IF parts = <<>> THEN <<>>
    ELSE IF Len(parts) = 1 THEN parts[1]
    ELSE parts[1] \o sep \o Join(Tail(parts), sep)

\* Python: ' '.join(s.split())
CollapseSpaces(s) == Join(SplitWS(s), <<" ">>)

\* Python: s.split(sep) for a one-character separator
RECURSIVE SplitOn(_, _)
SplitOn(s, sep) ==
    IF \A i \in DOMAIN s : s[i] # sep THEN <<s>>
    ELSE LET p == CHOOSE i \in DOMAIN s : s[i] = sep /\ \A j \in 1..(i - 1) : s[j] # sep
         IN <<SubSeq(s, 1, p - 1)>> \o SplitOn(SubSeq(s, p + 1, Len(s)), sep)

\* dict.get(key) with None for a missing key
Get(d, k) == IF k \in DOMAIN d THEN d[k] ELSE <<>>
\* x in list
InSeq(x, list) == \E k \in DOMAIN list : list[k] = x


\* Python re.sub(pattern, repl, s): leftmost non-overlapping matches, left to
\* right.  M(s, i) is the index just after the match that starts at i (0 when
\* the pattern does not match there), R(s, i, e) the replacement text.
ReSub(s, M(_, _), R(_, _, _)) ==
    LET f[i \in 1..(Len(s) + 1)] ==
          LET from(e) == IF e > i THEN R(s, i, e) \o f[e]
                         ELSE <<s[i]>> \o f[i + 1]
          IN IF i > Len(s) THEN <<>> ELSE from(M(s, i))
    IN f[1]
\* Python re.search(pattern, s) is not None
ReSearch(s, M(_, _)) == \E i \in 1..Len(s) : M(s, i) > i
Delete(s, i, e) == <<>>

\* \b at the gap before position i of s
WordBoundary(s, i) ==
    LET before == i > 1 /\ i - 1 <= Len(s) /\ s[i - 1] \in WordCh
        after == i >= 1 /\ i <= Len(s) /\ s[i] \in WordCh
    IN before # after

\* the literal w, compared case-insensitively, occurs in s at i
OccursAtI(s, w, i) ==
    /\ i >= 1
    /\ i + Len(w) - 1 <= Len(s)
    /\ \A k \in 1..Len(w) : ToLowerCh(s[i + k - 1]) = ToLowerCh(w[k])

-----------------------------------------------------------------------------
(* Regular expressions.  A pattern is a sequence of elements, matched left *)
(* to right with Python's backtracking order (greedy quantifiers first try *)
(* the longest repetition, an optional group is first tried present):      *)
(*   Cls(c, lo, hi)  a character class repeated lo..hi times, greedy       *)
(*   Lit(w, ci)      the literal w (ci: compared ignoring case)            *)
(*   Alt(ws, ci)     (w1|w2|...) over literals, tried in order             *)
(*   Opt(j)          start of an optional group (...)? that ends just      *)
(*                   before element j                                      *)
(*   Bnd             the assertion \b                                      *)

Cls(c, lo, hi) == [t |-> "cls", class |-> c, lo |-> lo, hi |-> hi]
Lit(w, ci) == [t |-> "alt", words |-> <<w>>, ci |-> ci]
Alt(ws, ci) == [t |-> "alt", words |-> ws, ci |-> ci]
Opt(j) == [t |-> "opt", jump |-> j]
Bnd == [t |-> "bnd"]
End == [t |-> "end"]
\* c* and c+ (hi < 0: no upper limit)
CStar(c) == Cls(c, 0, -1)
CPlus(c) == Cls(c, 1, -1)

LitAt(s, w, i, ci) == IF ci THEN OccursAtI(s, w, i) ELSE OccursAt(s, w, i)

\* index just after the match of pat that starts at position i of s, 0 when
\* pat does not match at i
RegexMatch(pat, s, i) ==
    LET m[k \in 1..(Len(pat) + 1), p \in 1..(Len(s) + 1)] ==
          IF k > Len(pat) THEN p
          ELSE LET it == pat[k] IN
            CASE it.t = "opt" ->
                   LET r == m[k + 1, p] IN IF r # 0 THEN r ELSE m[it.jump, p]
              [] it.t = "bnd" ->
                   IF WordBoundary(s, p) THEN m[k + 1, p] ELSE 0
              [] it.t = "end" ->
                   IF p = Len(s) + 1 \/ (p = Len(s) /\ s[p] = "\n")
                   THEN m[k + 1, p] ELSE 0
              [] it.t = "alt" ->
                   LET try[a \in 1..(Len(it.words) + 1)] ==
                         IF a > Len(it.words) THEN 0
                         ELSE LET r == IF LitAt(s, it.words[a], p, it.ci)
                                       THEN m[k + 1, p + Len(it.words[a])]
                                       ELSE 0
                              IN IF r # 0 THEN r ELSE try[a + 1]
                   IN try[1]
              [] it.t = "cls" ->
                   LET run == RunEnd(s, p, it.class) - p
                       top == IF it.hi < 0 THEN run ELSE Min(run, it.hi)
                       try[n \in -1..top] ==
                         IF n < it.lo THEN 0
                         ELSE LET r == m[k + 1, p + n]
                              IN IF r # 0 THEN r ELSE try[n - 1]
                   IN try[top]
    IN IF i < 1 \/ i > Len(s) + 1 THEN 0 ELSE m[1, i]

-----------------------------------------------------------------------------
(* Escalation policy: src/src/pipeline.py *)

\* 0.70, in 1/10000
GEMINI_FALLBACK_THRESHOLD == 7000
MIN_REQUIRED_FIELDS == 3

\* Python truthiness of contact_dict.get(f) for a str or list field
Populated(d, f) == Get(d, f) # <<>>

\* CardResearchPipeline._has_ocr_errors
HasOcrErrors(contact_dict) ==
    LET name == Get(contact_dict, "name")
        company == Get(contact_dict, "company")
        email == Get(contact_dict, "email")
        digit_count == CountIn(company, Digit)
        local == SplitOn(email, "@")[1]
    IN \/ name # <<>> /\ CountIn(name, Digit) > 0
       \/ company # <<>> /\ digit_count > 2 /\ digit_count * 10 > Len(company)
       \/ email # <<>> /\ (Contains(local, <<"1">>) \/ Contains(local, <<"0">>))

key_fields == <<"name", "email", "phone", "company">>
FoundFields(contact_dict) ==
    Cardinality({i \in DOMAIN key_fields : Populated(contact_dict, key_fields[i])})

\* the three escalation criteria of _should_use_gemini_fallback
LowConfidence(conf) == conf < GEMINI_FALLBACK_THRESHOLD
MissingKeyFields(contact_dict) == FoundFields(contact_dict) < MIN_REQUIRED_FIELDS
EscalationIndicated(conf, contact_dict) ==
    \/ LowConfidence(conf)
    \/ MissingKeyFields(contact_dict)
    \/ HasOcrErrors(contact_dict)

\* CardResearchPipeline._should_use_gemini_fallback
ShouldUseGeminiFallback(gemini, conf, contact_dict) ==
    IF gemini = "None" THEN FALSE
    ELSE EscalationIndicated(conf, contact_dict)

\* the logger.info records _should_use_gemini_fallback and _has_ocr_errors write
FallbackLog(gemini, conf, contact_dict) ==
    IF gemini = "None" THEN <<>>
    ELSE IF LowConfidence(conf) THEN <<"info: low confidence - using Gemini fallback">>
    ELSE IF MissingKeyFields(contact_dict)
         THEN <<"info: missing key fields - using Gemini fallback">>
    ELSE IF HasOcrErrors(contact_dict)
         THEN <<"info: likely OCR error",
                "info: OCR errors detected - using Gemini fallback">>
    ELSE <<>>



-----------------------------------------------------------------------------
(* Phone extraction: src/src/parser.py *)

PhoneSep == {"-", ".", " ", "\t", "\n"}
\* CardDataParser.PATTERNS["phone"]
\* (?:\+?\d{1,3}[-.\s]?)?(?:\(?\d{2,4}\)?[-.\s]?)?[\d\s.-]{6,14}\d
PhonePattern ==
    << Opt(5), Cls({"+"}, 0, 1), Cls(Digit, 1, 3), Cls(PhoneSep, 0, 1),
       Opt(10), Cls({"("}, 0, 1), Cls(Digit, 2, 4), Cls({")"}, 0, 1),
       Cls(PhoneSep, 0, 1),
       Cls(Digit \cup PhoneSep, 6, 14), Cls(Digit, 1, 1) >>
PhoneMatch(s, i) == RegexMatch(PhonePattern, s, i)

\* Python re.finditer / re.findall: the matched substrings, left to right
FindAll(s, M(_, _)) ==
    LET f[i \in 1..(Len(s) + 1)] ==
          LET from(e) == IF e > i THEN <<SubSeq(s, i, e - 1)>> \o f[e]
                         ELSE f[i + 1]
          IN IF i > Len(s) THEN <<>> ELSE from(M(s, i))
    IN f[1]

\* the characters of s that lie in class, in order
Keep(s, class) ==
    LET f[i \in 1..(Len(s) + 1)] ==
          IF i > Len(s) THEN <<>>
          ELSE IF s[i] \in class THEN <<s[i]>> \o f[i + 1] ELSE f[i + 1]
    IN f[1]
Drop(s, class) ==
    LET f[i \in 1..(Len(s) + 1)] ==
          IF i > Len(s) THEN <<>>
          ELSE IF s[i] \in class THEN f[i + 1] ELSE <<s[i]>> \o f[i + 1]
    IN f[1]

\* CardDataParser._normalize_phone; None is <<>>
NormalizePhone(phone) ==
    LET digits == Keep(phone, Digit \cup {"+"})
        digit_count == CountIn(digits, Digit)
    IN IF digit_count < 10 THEN <<>> ELSE digits

\* list.append(x) unless x is already in the list
AppendNew(list, x) ==
    IF \E k \in DOMAIN list : list[k] = x THEN list ELSE Append(list, x)

\* re.sub(r'\s+', ' ', text)
WsRunMatch(s, i) == RunEnd(s, i, Space)
OneSpace(s, i, e) == <<" ">>
\* re.findall(r'[\d\s.\-()]+', text)
DigitGroupClass == Digit \cup Space \cup {".", "-", "(", ")"}
DigitGroupMatch(s, i) == RunEnd(s, i, DigitGroupClass)

\* first loop of _extract_phones over the pattern matches
PatternPass(matches) ==
    LET f[k \in 0..Len(matches)] ==
          IF k = 0 THEN <<>>
          ELSE LET phone == NormalizePhone(matches[k])
               IN IF phone # <<>> THEN AppendNew(f[k - 1], phone) ELSE f[k - 1]
    IN f[Len(matches)]
\* second loop of _extract_phones over the digit groups
DigitGroupPass(phones, digit_groups) ==
    LET f[k \in 0..Len(digit_groups)] ==
          IF k = 0 THEN phones
          ELSE LET digits_only == Keep(digit_groups[k], Digit)
               IN IF 10 <= Len(digits_only) /\ Len(digits_only) <= 14
                  THEN AppendNew(f[k - 1], digits_only)
                  ELSE f[k - 1]
    IN f[Len(digit_groups)]

\* CardDataParser._extract_phones
ExtractPhones(text) ==
    LET cleaned_text == ReSub(Drop(text, {";", ":", "|"}), WsRunMatch, OneSpace)
    IN DigitGroupPass(PatternPass(FindAll(cleaned_text, PhoneMatch)),
                      FindAll(cleaned_text, DigitGroupMatch))

-----------------------------------------------------------------------------
(* Text correction: src/src/ocr.py *)

\* OCRExtractor.word_corrections, <<wrong, correct>> in insertion order
word_corrections ==
    <<
       <<<<"W","i","1","1","i","a","m">>,
         <<"W","i","l","l","i","a","m">>>>,
       <<<<"W","i","l","1","i","a","m">>,
         <<"W","i","l","l","i","a","m">>>>,
       <<<<"W","1","l","l","i","a","m">>,
         <<"W","i","l","l","i","a","m">>>>,
       <<<<"M","o","1","1","y">>,
         <<"M","o","l","l","y">>>>,
       <<<<"M","o","l","1","y">>,
         <<"M","o","l","l","y">>>>,
       <<<<"M","i","1","1","e","r">>,
         <<"M","i","l","l","e","r">>>>,
       <<<<"M","i","l","1","e","r">>,
         <<"M","i","l","l","e","r">>>>,
       <<<<"A","1","e","x">>,
         <<"A","l","e","x">>>>,
       <<<<"A","1","i","c","e">>,
         <<"A","l","i","c","e">>>>,
       <<<<"P","h","i","1","i","p">>,
         <<"P","h","i","l","i","p">>>>,
       <<<<"P","h","i","1","1","i","p">>,
         <<"P","h","i","l","l","i","p">>>>,
       <<<<"B","i","1","1">>,
         <<"B","i","l","l">>>>,
       <<<<"W","i","1","s","o","n">>,
         <<"W","i","l","s","o","n">>>>,
       <<<<"W","1","l","s","o","n">>,
         <<"W","i","l","s","o","n">>>>,
       <<<<"M","i","c","h","a","e","1">>,
         <<"M","i","c","h","a","e","l">>>>,
       <<<<"D","a","n","i","e","1">>,
         <<"D","a","n","i","e","l">>>>,
       <<<<"S","a","m","u","e","1">>,
         <<"S","a","m","u","e","l">>>>,
       <<<<"P","a","u","1">>,
         <<"P","a","u","l">>>>,
       <<<<"C","h","a","r","1","e","s">>,
         <<"C","h","a","r","l","e","s">>>>,
       <<<<"C","h","a","r","1","i","e">>,
         <<"C","h","a","r","l","i","e">>>>,
       <<<<"O","l","1","v","i","a">>,
         <<"O","l","i","v","i","a">>>>,
       <<<<"O","1","i","v","i","a">>,
         <<"O","l","i","v","i","a">>>>,
       <<<<"0","l","i","v","i","a">>,
         <<"O","l","i","v","i","a">>>>,
       <<<<"E","l","1","a">>,
         <<"E","l","l","a">>>>,
       <<<<"E","1","l","a">>,
         <<"E","l","l","a">>>>,
       <<<<"M","i","1","e","s">>,
         <<"M","i","l","e","s">>>>,
       <<<<"G","a","1","e">>,
         <<"G","a","l","e">>>>,
       <<<<"K","e","1","1","y">>,
         <<"K","e","l","l","y">>>>,
       <<<<"K","e","l","1","y">>,
         <<"K","e","l","l","y">>>>,
       <<<<"S","a","1","1","y">>,
         <<"S","a","l","l","y">>>>,
       <<<<"S","a","l","1","y">>,
         <<"S","a","l","l","y">>>>,
       <<<<"H","o","1","1","y">>,
         <<"H","o","l","l","y">>>>,
       <<<<"H","o","l","1","y">>,
         <<"H","o","l","l","y">>>>,
       <<<<"L","i","1","y">>,
         <<"L","i","l","y">>>>,
       <<<<"L","1","l","y">>,
         <<"L","i","l","y">>>>,
       <<<<"L","i","1","1","i","a","n">>,
         <<"L","i","l","l","i","a","n">>>>,
       <<<<"L","i","l","1","i","a","n">>,
         <<"L","i","l","l","i","a","n">>>>,
       <<<<"H","a","1","1">>,
         <<"H","a","l","l">>>>,
       <<<<"H","a","l","1">>,
         <<"H","a","l","l">>>>,
       <<<<"R","e","a","1">>,
         <<"R","e","a","l">>>>,
       <<<<"r","e","a","1">>,
         <<"r","e","a","l">>>>,
       <<<<"R","e","a","1"," ","E","s","t","a","t","e">>,
         <<"R","e","a","l"," ","E","s","t","a","t","e">>>>,
       <<<<"S","a","1","e","s">>,
         <<"S","a","l","e","s">>>>,
       <<<<"s","a","1","e","s">>,
         <<"s","a","l","e","s">>>>,
       <<<<"G","e","n","e","r","a","1">>,
         <<"G","e","n","e","r","a","l">>>>,
       <<<<"S","o","1","u","t","i","o","n","s">>,
         <<"S","o","l","u","t","i","o","n","s">>>>,
       <<<<"s","o","1","u","t","i","o","n","s">>,
         <<"s","o","l","u","t","i","o","n","s">>>>,
       <<<<"T","e","c","h","n","o","1","o","g","y">>,
         <<"T","e","c","h","n","o","l","o","g","y">>>>,
       <<<<"t","e","c","h","n","o","1","o","g","y">>,
         <<"t","e","c","h","n","o","l","o","g","y">>>>,
       <<<<"T","e","c","h","n","o","1","o","g","i","e","s">>,
         <<"T","e","c","h","n","o","l","o","g","i","e","s">>>>,
       <<<<"G","1","o","b","a","1">>,
         <<"G","l","o","b","a","l">>>>,
       <<<<"g","1","o","b","a","1">>,
         <<"g","l","o","b","a","l">>>>,
       <<<<"F","i","n","a","n","c","i","a","1">>,
         <<"F","i","n","a","n","c","i","a","l">>>>,
       <<<<"D","i","g","i","t","a","1">>,
         <<"D","i","g","i","t","a","l">>>>,
       <<<<"P","r","o","f","e","s","s","i","o","n","a","1">>,
         <<"P","r","o","f","e","s","s","i","o","n","a","l">>>>,
       <<<<"I","n","t","e","r","n","a","t","i","o","n","a","1">>,
         <<"I","n","t","e","r","n","a","t","i","o","n","a","l">>>>,
       <<<<"I","n","d","u","s","t","r","i","a","1">>,
         <<"I","n","d","u","s","t","r","i","a","l">>>>,
       <<<<"C","a","p","i","t","a","1">>,
         <<"C","a","p","i","t","a","l">>>>,
       <<<<"L","e","g","a","1">>,
         <<"L","e","g","a","l">>>>,
       <<<<"S","o","c","i","a","1">>,
         <<"S","o","c","i","a","l">>>>,
       <<<<"V","i","r","t","u","a","1">>,
         <<"V","i","r","t","u","a","l">>>>,
       <<<<"C","e","n","t","r","a","1">>,
         <<"C","e","n","t","r","a","l">>>>,
       <<<<"R","o","y","a","1">>,
         <<"R","o","y","a","l">>>>,
       <<<<"I","m","p","e","r","i","a","1">>,
         <<"I","m","p","e","r","i","a","l">>>>,
       <<<<"U","n","i","v","e","r","s","a","1">>,
         <<"U","n","i","v","e","r","s","a","l">>>>,
       <<<<"C","o","a","s","t","a","1">>,
         <<"C","o","a","s","t","a","l">>>>,
       <<<<"R","e","g","i","o","n","a","1">>,
         <<"R","e","g","i","o","n","a","l">>>>,
       <<<<"N","a","t","i","o","n","a","1">>,
         <<"N","a","t","i","o","n","a","l">>>>,
       <<<<"F","e","d","e","r","a","1">>,
         <<"F","e","d","e","r","a","l">>>>,
       <<<<"C","o","m","m","e","r","c","i","a","1">>,
         <<"C","o","m","m","e","r","c","i","a","l">>>>,
       <<<<"R","e","s","i","d","e","n","t","i","a","1">>,
         <<"R","e","s","i","d","e","n","t","i","a","l">>>>,
       <<<<"M","u","n","i","c","i","p","a","1">>,
         <<"M","u","n","i","c","i","p","a","l">>>>,
       <<<<"C","o","r","a","1">>,
         <<"C","o","r","a","l">>>>,
       <<<<"C","r","y","s","t","a","1">>,
         <<"C","r","y","s","t","a","l">>>>,
       <<<<"M","e","t","a","1">>,
         <<"M","e","t","a","l">>>>,
       <<<<"T","o","t","a","1">>,
         <<"T","o","t","a","l">>>>,
       <<<<"F","i","s","c","a","1">>,
         <<"F","i","s","c","a","l">>>>,
       <<<<"C","o","r","p","o","r","a","1">>,
         <<"C","o","r","p","o","r","a","l">>>>,
       <<<<"1","i","v","e">>,
         <<"l","i","v","e">>>>,
       <<<<"1","i","f","e">>,
         <<"l","i","f","e">>>>,
       <<<<"o","n","1","i","n","e">>,
         <<"o","n","l","i","n","e">>>>,
       <<<<"O","n","1","i","n","e">>,
         <<"O","n","l","i","n","e">>>>,
       <<<<"m","o","b","i","1","e">>,
         <<"m","o","b","i","l","e">>>>,
       <<<<"M","o","b","i","1","e">>,
         <<"M","o","b","i","l","e">>>>,
       <<<<"e","m","a","i","1">>,
         <<"e","m","a","i","l">>>>,
       <<<<"E","m","a","i","1">>,
         <<"E","m","a","i","l">>>>,
       <<<<"1","o","b","s","t","e","r">>,
         <<"l","o","b","s","t","e","r">>>>,
       <<<<"L","o","b","s","t","e","r">>,
         <<"L","o","b","s","t","e","r">>>>,
       <<<<"1","i","s","h","i","n","g">>,
         <<"f","i","s","h","i","n","g">>>>,
       <<<<"f","i","s","h","i","n","g">>,
         <<"f","i","s","h","i","n","g">>>>,
       <<<<"B","1","u","e">>,
         <<"B","l","u","e">>>>,
       <<<<"b","1","u","e">>,
         <<"b","l","u","e">>>>,
       <<<<"P","u","r","p","1","e">>,
         <<"P","u","r","p","l","e">>>>,
       <<<<"Y","e","l","1","o","w">>,
         <<"Y","e","l","l","o","w">>>>,
       <<<<"G","o","1","d">>,
         <<"G","o","l","d">>>>,
       <<<<"S","i","1","v","e","r">>,
         <<"S","i","l","v","e","r">>>>,
       <<<<"P","1","a","t","i","n","u","m">>,
         <<"P","l","a","t","i","n","u","m">>>>,
       <<<<"c","0","m">>,
         <<"c","o","m">>>>,
       <<<<".","c","0","m">>,
         <<".","c","o","m">>>>,
       <<<<"c","Q","m">>,
         <<"c","o","m">>>>,
       <<<<".","c","Q","m">>,
         <<".","c","o","m">>>>,
       <<<<"c","c","m">>,
         <<"c","o","m">>>>,
       <<<<".","c","c","m">>,
         <<".","c","o","m">>>>,
       <<<<"1","n","c">>,
         <<"I","n","c">>>>,
       <<<<"1","N","C">>,
         <<"I","N","C">>>>,
       <<<<"L","1","C">>,
         <<"L","L","C">>>>,
       <<<<"1","1","C">>,
         <<"L","L","C">>>>,
       <<<<"1","L","C">>,
         <<"L","L","C">>>>,
       <<<<"C","o","r","p","0","r","a","t","i","o","n">>,
         <<"C","o","r","p","o","r","a","t","i","o","n">>>>,
       <<<<"C","o","r","p","o","r","a","t","1","o","n">>,
         <<"C","o","r","p","o","r","a","t","i","o","n">>>>,
       <<<<"F","1","o","r","i","d","a">>,
         <<"F","l","o","r","i","d","a">>>>,
       <<<<"C","a","1","i","f","o","r","n","i","a">>,
         <<"C","a","l","i","f","o","r","n","i","a">>>>,
       <<<<"I","1","1","i","n","o","i","s">>,
         <<"I","l","l","i","n","o","i","s">>>>,
       <<<<"P","e","n","n","s","y","1","v","a","n","i","a">>,
         <<"P","e","n","n","s","y","l","v","a","n","i","a">>>>,
       <<<<"C","a","r","o","1","i","n","a">>,
         <<"C","a","r","o","l","i","n","a">>>>,
       <<<<"M","a","n","a","g","3","r">>,
         <<"M","a","n","a","g","e","r">>>>,
       <<<<"D","1","r","e","c","t","o","r">>,
         <<"D","i","r","e","c","t","o","r">>>>,
       <<<<"E","n","g","1","n","e","e","r">>,
         <<"E","n","g","i","n","e","e","r">>>>,
       <<<<"D","e","v","e","1","o","p","e","r">>,
         <<"D","e","v","e","l","o","p","e","r">>>>,
       <<<<"C","o","n","s","u","1","t","a","n","t">>,
         <<"C","o","n","s","u","l","t","a","n","t">>>>,
       <<<<"S","p","e","c","1","a","l","i","s","t">>,
         <<"S","p","e","c","i","a","l","i","s","t">>>>,
       <<<<"A","n","a","1","y","s","t">>,
         <<"A","n","a","l","y","s","t">>>>,
       <<<<"A","d","m","1","n">>,
         <<"A","d","m","i","n">>>>
    >>

\* re.sub(re.escape(wrong), correct, text, flags=re.IGNORECASE)
ApplyWordCorrection(text, entry) ==
    LET M(s, i) == IF OccursAtI(s, entry[1], i) THEN i + Len(entry[1]) ELSE 0
        R(s, i, e) == entry[2]
    IN ReSub(text, M, R)
\* the loop over word_corrections.items()
\* the loop over word_corrections.items(): entries whose key does not occur
\* in the text leave it unchanged, so the loop steps from one entry that
\* occurs to the next one that does
ContainsI(s, w) == \E i \in 1..(Len(s) - Len(w) + 1) : OccursAtI(s, w, i)
RECURSIVE ApplyEntriesAfter(_, _)
ApplyEntriesAfter(text, k) ==
    LET hits == {j \in (k + 1)..Len(word_corrections) :
                    ContainsI(text, word_corrections[j][1])}
    IN IF hits = {} THEN text
       ELSE LET j == CHOOSE h \in hits : \A g \in hits : h <= g
            IN ApplyEntriesAfter(ApplyWordCorrection(text, word_corrections[j]), j)
ApplyWordCorrections(text) == ApplyEntriesAfter(text, 0)

One == {"1"}
Zero == {"0"}
\* ([a-zA-Z])1([a-zA-Z]) -> \1l\2
Rule1Match(s, i) == RegexMatch(<<Cls(Letter, 1, 1), Cls(One, 1, 1), Cls(Letter, 1, 1)>>, s, i)
Rule1Repl(s, i, e) == <<s[i], "l", s[i + 2]>>
\* \b1([a-zA-Z]{2,}) -> l\1
Rule2Match(s, i) == RegexMatch(<<Bnd, Cls(One, 1, 1), Cls(Letter, 2, -1)>>, s, i)
Rule2Repl(s, i, e) == <<"l">> \o SubSeq(s, i + 1, e - 1)
\* ([a-zA-Z]{2,})1\b -> \1l
Rule3Match(s, i) == RegexMatch(<<Cls(Letter, 2, -1), Cls(One, 1, 1), Bnd>>, s, i)
Rule3Repl(s, i, e) == SubSeq(s, i, e - 2) \o <<"l">>
\* ([a-zA-Z])11([a-zA-Z]) -> \1ll\2
Rule4Match(s, i) ==
    RegexMatch(<<Cls(Letter, 1, 1), Cls(One, 2, 2), Cls(Letter, 1, 1)>>, s, i)
Rule4Repl(s, i, e) == <<s[i], "l", "l", s[i + 3]>>
\* ([a-zA-Z])11\b -> \1ll
Rule5Match(s, i) == RegexMatch(<<Cls(Letter, 1, 1), Cls(One, 2, 2), Bnd>>, s, i)
Rule5Repl(s, i, e) == <<s[i], "l", "l">>
\* ([a-zA-Z])0([a-zA-Z]) -> \1o\2
Rule6Match(s, i) == RegexMatch(<<Cls(Letter, 1, 1), Cls(Zero, 1, 1), Cls(Letter, 1, 1)>>, s, i)
Rule6Repl(s, i, e) == <<s[i], "o", s[i + 2]>>

At == <<"@">>
Dot == <<".">>
Com == <<"c", "o", "m">>
Www == <<"w", "w", "w">>
OorZero == {"o", "O", "0"}
\* the text of group 1, (\w+) right after the character at i
WordAfter(s, i) == SubSeq(s, i + 1, RunEnd(s, i + 1, WordCh) - 1)
\* @(\w+)\s*\.\s*com\b -> @\1.com   (IGNORECASE)
Rule7Match(s, i) ==
    RegexMatch(<<Lit(At, TRUE), CPlus(WordCh), CStar(Space), Lit(Dot, TRUE),
                 CStar(Space), Lit(Com, TRUE), Bnd>>, s, i)
Rule7Repl(s, i, e) == At \o WordAfter(s, i) \o Dot \o Com
\* @(\w+)\s+com\b -> @\1.com   (IGNORECASE)
Rule8Match(s, i) ==
    RegexMatch(<<Lit(At, TRUE), CPlus(WordCh), CPlus(Space), Lit(Com, TRUE), Bnd>>, s, i)
Rule8Repl(s, i, e) == At \o WordAfter(s, i) \o Dot \o Com
\* (\w+)@(\w+)\.c[o0]m\b -> \1@\2.com   (IGNORECASE)
Rule9Match(s, i) ==
    RegexMatch(<<CPlus(WordCh), Lit(At, TRUE), CPlus(WordCh), Lit(Dot, TRUE),
                 Lit(<<"c">>, TRUE), Cls(OorZero, 1, 1), Lit(<<"m">>, TRUE), Bnd>>, s, i)
Rule9Repl(s, i, e) == SubSeq(s, i, e - 4) \o Com
\* www\s*\.\s* -> www.   (IGNORECASE)
Rule10Match(s, i) ==
    RegexMatch(<<Lit(Www, TRUE), CStar(Space), Lit(Dot, TRUE), CStar(Space)>>, s, i)
Rule10Repl(s, i, e) == Www \o Dot
\* \.c[o0]m\b -> .com   (IGNORECASE)
Rule11Match(s, i) ==
    RegexMatch(<<Lit(Dot, TRUE), Lit(<<"c">>, TRUE), Cls(OorZero, 1, 1),
                 Lit(<<"m">>, TRUE), Bnd>>, s, i)
Rule11Repl(s, i, e) == Dot \o Com

\* the contextual 1 -> l and 0 -> o rewrites of _correct_ocr_text
ContextRewrites(t0) ==
    LET t1 == ReSub(t0, Rule1Match, Rule1Repl)
        t2 == ReSub(t1, Rule2Match, Rule2Repl)
        t3 == ReSub(t2, Rule3Match, Rule3Repl)
        t4 == ReSub(t3, Rule4Match, Rule4Repl)
        t5 == ReSub(t4, Rule5Match, Rule5Repl)
    IN ReSub(t5, Rule6Match, Rule6Repl)
\* the email-domain and URL fixes of _correct_ocr_text
PunctuationFixes(t6) ==
    LET t7 == ReSub(t6, Rule7Match, Rule7Repl)
        t8 == ReSub(t7, Rule8Match, Rule8Repl)
        t9 == ReSub(t8, Rule9Match, Rule9Repl)
        t10 == ReSub(t9, Rule10Match, Rule10Repl)
    IN ReSub(t10, Rule11Match, Rule11Repl)

\* OCRExtractor._correct_ocr_text
CorrectOcrText(text) ==
    CollapseSpaces(PunctuationFixes(ContextRewrites(ApplyWordCorrections(text))))

-----------------------------------------------------------------------------
(* Post-processing: src/src/postprocessing.py *)

\* ContactPostProcessor.TITLE_PATTERNS (all searched with re.IGNORECASE)
TITLE_PATTERNS ==
    << <<Bnd, Alt(<<<<"S", "e", "n", "i", "o", "r">>, <<"J", "u", "n", "i", "o", "r">>, <<"L", "e", "a", "d">>, <<"C", "h", "i", "e", "f">>, <<"H", "e", "a", "d">>,
                    <<"P", "r", "i", "n", "c", "i", "p", "a", "l">>>>, TRUE),
         CPlus(Space), CPlus(WordCh), CStar(Space), CStar(WordCh), Bnd>>,
       <<Bnd, Alt(<<<<"M", "a", "n", "a", "g", "e", "r">>, <<"D", "i", "r", "e", "c", "t", "o", "r">>, <<"E", "n", "g", "i", "n", "e", "e", "r">>, <<"D", "e", "v", "e", "l", "o", "p", "e", "r">>,
                    <<"D", "e", "s", "i", "g", "n", "e", "r">>, <<"A", "n", "a", "l", "y", "s", "t">>, <<"S", "p", "e", "c", "i", "a", "l", "i", "s", "t">>, <<"C", "o", "n", "s", "u", "l", "t", "a", "n", "t">>>>, TRUE),
         Bnd>>,
       <<Bnd, Alt(<<<<"C", "E", "O">>, <<"C", "T", "O">>, <<"C", "F", "O">>, <<"C", "O", "O">>, <<"V", "P">>, <<"P", "r", "e", "s", "i", "d", "e", "n", "t">>,
                    <<"F", "o", "u", "n", "d", "e", "r">>, <<"P", "a", "r", "t", "n", "e", "r">>>>, TRUE), Bnd>>,
       <<Bnd, Lit(<<"C", "o", "m", "m", "u", "n", "i", "c", "a", "t", "i", "o", "n", "s", " ", "M", "a", "n", "a", "g", "e", "r">>, TRUE), Bnd>>,
       <<Bnd, Lit(<<"R", "e", "a", "l", " ", "E", "s", "t", "a", "t", "e", " ", "A", "g", "e", "n", "t">>, TRUE), Bnd>>,
       <<Bnd, Lit(<<"S", "o", "f", "t", "w", "a", "r", "e", " ", "E", "n", "g", "i", "n", "e", "e", "r">>, TRUE), Bnd>>,
       <<Bnd, Lit(<<"M", "a", "r", "k", "e", "t", "i", "n", "g", " ", "M", "a", "n", "a", "g", "e", "r">>, TRUE), Bnd>>,
       <<Bnd, Lit(<<"S", "a", "l", "e", "s", " ", "R", "e", "p", "r", "e", "s", "e", "n", "t", "a", "t", "i", "v", "e">>, TRUE), Bnd>> >>

\* re.sub(pattern, '', s) and re.search(pattern, s) for a pattern value
RemoveAll(s, pat) ==
    LET M(t, i) == RegexMatch(pat, t, i) IN ReSub(s, M, Delete)
Found(s, pat) ==
    LET M(t, i) == RegexMatch(pat, t, i) IN ReSearch(s, M)

\* _clean_and_validate: "Remove titles from name"
CleanName(name) ==
    LET f[k \in 0..Len(TITLE_PATTERNS)] ==
          IF k = 0 THEN name
          ELSE IF Found(f[k - 1], TITLE_PATTERNS[k])
               THEN Strip(RemoveAll(f[k - 1], TITLE_PATTERNS[k]))
               ELSE f[k - 1]
    IN IF name = <<>> THEN name ELSE f[Len(TITLE_PATTERNS)]

Alnum == Letter \cup Digit
HSpace == Space \cup {"-"}
\* [a-zA-Z0-9._%+-]+@[a-zA-Z0-9.-]+\.[a-zA-Z]{2,}
CompanyEmailPattern ==
    <<CPlus(Alnum \cup {".", "_", "%", "+", "-"}), Lit(<<"@">>, FALSE),
      CPlus(Alnum \cup {".", "-"}), Lit(<<".">>, FALSE), Cls(Letter, 2, -1)>>
\* (\+?\d{1,3}[\s\-]?)?(\(?\d{3}\)?[\s\-]?)?\d{3}[\s\-]?\d{4}
CompanyPhonePattern ==
    <<Opt(5), Cls({"+"}, 0, 1), Cls(Digit, 1, 3), Cls(HSpace, 0, 1),
      Opt(10), Cls({"("}, 0, 1), Cls(Digit, 3, 3), Cls({")"}, 0, 1), Cls(HSpace, 0, 1),
      Cls(Digit, 3, 3), Cls(HSpace, 0, 1), Cls(Digit, 4, 4)>>
\* (https?://)?(www\.)?[a-zA-Z0-9\-]+\.[a-zA-Z]{2,}
CompanyUrlPattern ==
    <<Opt(5), Lit(<<"h", "t", "t", "p">>, FALSE), Cls({"s"}, 0, 1), Lit(<<":", "/", "/">>, FALSE),
      Opt(7), Lit(<<"w", "w", "w", ".">>, FALSE),
      CPlus(Alnum \cup {"-"}), Lit(<<".">>, FALSE), Cls(Letter, 2, -1)>>

\* _clean_and_validate: "Remove email/phone/website from company"
CleanCompany(company) ==
    IF company = <<>> THEN company
    ELSE CollapseSpaces(RemoveAll(RemoveAll(RemoveAll(company, CompanyEmailPattern),
                                            CompanyPhonePattern),
                                  CompanyUrlPattern))

\* _clean_and_validate: "Clean phone numbers"
CleanPhones(phone) ==
    LET f[k \in 0..Len(phone)] ==
          IF k = 0 THEN <<>>
          ELSE LET cleaned == Keep(phone[k], Digit \cup {"+", "-", "(", ")"} \cup Space)
               IN IF cleaned # <<>> THEN Append(f[k - 1], cleaned) ELSE f[k - 1]
    IN f[Len(phone)]

\* Python str.isupper(): some cased character, and no lower-case one
IsUpper(s) == CountIn(s, Upper) > 0 /\ CountIn(s, Lower) = 0

company_indicators ==
    <<<<"i", "n", "c">>, <<"l", "l", "c">>, <<"l", "t", "d">>, <<"c", "o", "r", "p">>, <<"c", "o", "r", "p", "o", "r", "a", "t", "i", "o", "n">>, <<"c", "o", "m", "p", "a", "n", "y">>, <<"c", "o">>,
      <<"g", "r", "o", "u", "p">>, <<"t", "e", "c", "h", "n", "o", "l", "o", "g", "i", "e", "s">>, <<"t", "e", "c", "h", "n", "o", "l", "o", "g", "y">>, <<"s", "o", "l", "u", "t", "i", "o", "n", "s">>, <<"s", "y", "s", "t", "e", "m", "s">>,
      <<"a", "s", "s", "o", "c", "i", "a", "t", "e", "s">>, <<"p", "a", "r", "t", "n", "e", "r", "s">>, <<"e", "n", "t", "e", "r", "p", "r", "i", "s", "e", "s">>, <<"c", "o", "n", "s", "u", "l", "t", "i", "n", "g">>>>
ContainsAny(s, words) == \E k \in DOMAIN words : Contains(s, words[k])

\* ContactPostProcessor._extract_company_from_lines
ExtractCompanyFromLines(lines) ==
    LET skipped(line) ==
            \/ Contains(line, <<"@">>)
            \/ Contains(StrLower(line), <<"w", "w", "w">>)
            \/ Contains(StrLower(line), <<"h", "t", "t", "p">>)
            \/ CountIn(line, Digit) * 10 > Len(line) * 3
        hit(k) == ~skipped(lines[k]) /\ ContainsAny(StrLower(lines[k]), company_indicators)
        caps(k) == IsUpper(lines[k]) /\ Len(lines[k]) > 3 /\ Len(lines[k]) < 50
        hits == {k \in DOMAIN lines : hit(k)}
        upper == {k \in DOMAIN lines : k <= 5 /\ caps(k)}
        first(S) == CHOOSE k \in S : \A j \in S : k <= j
    IN IF hits # {} THEN Strip(lines[first(hits)])
       ELSE IF upper # {} THEN Strip(lines[first(upper)])
       ELSE <<>>

\* the non-empty stripped lines of raw_text
TextLines(text) ==
    LET parts == SplitOn(text, "\n")
        f[k \in 0..Len(parts)] ==
          IF k = 0 THEN <<>>
          ELSE IF Strip(parts[k]) # <<>> THEN Append(f[k - 1], Strip(parts[k]))
               ELSE f[k - 1]
    IN f[Len(parts)]

\* ContactPostProcessor._extract_from_lines: the company field
MaxCompanyLen == 100
RawCompany(raw_contact) ==
    LET raw_text0 == Get(raw_contact, "raw_text")
        raw_text1 == IF raw_text0 = <<>> THEN Get(raw_contact, "company") ELSE raw_text0
        raw_company == Get(raw_contact, "company")
    IN IF raw_company # <<>> /\ Len(raw_company) < MaxCompanyLen THEN raw_company
       ELSE ExtractCompanyFromLines(TextLines(raw_text1))

\* ContactPostProcessor._calculate_confidence, in 1/10000 (rounded down)
PostConfidence(contact) ==
    LET fields == <<"name", "email", "phone", "company", "title", "website">>
        valid_count == Cardinality({k \in DOMAIN fields : contact[fields[k]] # <<>>})
                       + Len(contact.phone) - 1
    IN Min((valid_count * 10000) \div 6, 10000)

\* postprocess_contact: ContactPostProcessor.process and the returned dict
PostprocessContact(raw_contact) ==
    LET structured ==
          [name |-> CleanName(Get(raw_contact, "name")),
           title |-> Get(raw_contact, "title"),
           company |-> CleanCompany(RawCompany(raw_contact)),
           email |-> Get(raw_contact, "email"),
           phone |-> CleanPhones(Get(raw_contact, "phone")),
           website |-> Get(raw_contact, "website"),
           address |-> <<>>]
    IN [name |-> structured.name,
        title |-> structured.title,
        company |-> structured.company,
        email |-> structured.email,
        phone |-> structured.phone,
        website |-> structured.website,
        address |-> structured.address,
        confidence_score |-> PostConfidence(structured)]

-----------------------------------------------------------------------------
(* Company enrichment: src/src/enrichment.py, CompanyEnricher *)

CLEARBIT_LOGO_URL == <<"h", "t", "t", "p", "s", ":", "/", "/", "l", "o", "g", "o", ".", "c", "l", "e", "a", "r", "b", "i", "t", ".", "c", "o", "m">>

PERSONAL_EMAIL_DOMAINS ==
    {<<"g", "m", "a", "i", "l", ".", "c", "o", "m">>, <<"y", "a", "h", "o", "o", ".", "c", "o", "m">>, <<"h", "o", "t", "m", "a", "i", "l", ".", "c", "o", "m">>, <<"o", "u", "t", "l", "o", "o", "k", ".", "c", "o", "m">>, <<"a", "o", "l", ".", "c", "o", "m">>,
     <<"i", "c", "l", "o", "u", "d", ".", "c", "o", "m">>, <<"m", "a", "i", "l", ".", "c", "o", "m">>, <<"p", "r", "o", "t", "o", "n", "m", "a", "i", "l", ".", "c", "o", "m">>, <<"z", "o", "h", "o", ".", "c", "o", "m">>, <<"y", "a", "n", "d", "e", "x", ".", "c", "o", "m">>,
     <<"l", "i", "v", "e", ".", "c", "o", "m">>, <<"m", "s", "n", ".", "c", "o", "m">>, <<"m", "e", ".", "c", "o", "m">>, <<"m", "a", "c", ".", "c", "o", "m">>, <<"i", "n", "b", "o", "x", ".", "c", "o", "m">>, <<"a", "t", "t", ".", "n", "e", "t">>,
     <<"s", "b", "c", "g", "l", "o", "b", "a", "l", ".", "n", "e", "t">>, <<"v", "e", "r", "i", "z", "o", "n", ".", "n", "e", "t">>, <<"c", "o", "m", "c", "a", "s", "t", ".", "n", "e", "t">>, <<"c", "o", "x", ".", "n", "e", "t">>, <<"c", "h", "a", "r", "t", "e", "r", ".", "n", "e", "t">>,
     <<"e", "a", "r", "t", "h", "l", "i", "n", "k", ".", "n", "e", "t">>, <<"j", "u", "n", "o", ".", "c", "o", "m">>, <<"b", "e", "l", "l", "s", "o", "u", "t", "h", ".", "n", "e", "t">>, <<"r", "o", "c", "k", "e", "t", "m", "a", "i", "l", ".", "c", "o", "m">>}

\* <<industry, keywords>> in the dict's order
INDUSTRY_KEYWORDS ==
    << <<<<"r", "e", "a", "l", " ", "e", "s", "t", "a", "t", "e">>, <<<<"r", "e", "a", "l", " ", "e", "s", "t", "a", "t", "e">>, <<"r", "e", "a", "l", "t", "y">>, <<"p", "r", "o", "p", "e", "r", "t", "y">>, <<"p", "r", "o", "p", "e", "r", "t", "i", "e", "s">>,
                            <<"h", "o", "u", "s", "i", "n", "g">>, <<"h", "o", "m", "e", "s">>, <<"r", "e", "m", "c", "o">>>> >>,
       <<<<"t", "e", "c", "h", "n", "o", "l", "o", "g", "y">>, <<<<"t", "e", "c", "h">>, <<"s", "o", "f", "t", "w", "a", "r", "e">>, <<"d", "i", "g", "i", "t", "a", "l">>, <<"c", "y", "b", "e", "r">>, <<"c", "l", "o", "u", "d">>,
                           <<"d", "a", "t", "a">>, <<"a", "i">>, <<"c", "o", "m", "p", "u", "t", "i", "n", "g">>>> >>,
       <<<<"f", "i", "n", "a", "n", "c", "e">>, <<<<"b", "a", "n", "k">>, <<"f", "i", "n", "a", "n", "c", "i", "a", "l">>, <<"c", "a", "p", "i", "t", "a", "l">>, <<"i", "n", "v", "e", "s", "t", "m", "e", "n", "t">>, <<"w", "e", "a", "l", "t", "h">>,
                        <<"i", "n", "s", "u", "r", "a", "n", "c", "e">>, <<"c", "r", "e", "d", "i", "t">>>> >>,
       <<<<"h", "e", "a", "l", "t", "h", "c", "a", "r", "e">>, <<<<"h", "e", "a", "l", "t", "h">>, <<"m", "e", "d", "i", "c", "a", "l">>, <<"h", "o", "s", "p", "i", "t", "a", "l">>, <<"c", "l", "i", "n", "i", "c">>, <<"c", "a", "r", "e">>,
                           <<"p", "h", "a", "r", "m", "a">>, <<"b", "i", "o", "t", "e", "c", "h">>>> >>,
       <<<<"l", "e", "g", "a", "l">>, <<<<"l", "a", "w">>, <<"l", "e", "g", "a", "l">>, <<"a", "t", "t", "o", "r", "n", "e", "y">>, <<"l", "a", "w", "y", "e", "r">>, <<"c", "o", "u", "n", "s", "e", "l">>,
                      <<"a", "d", "v", "o", "c", "a", "t", "e", "s">>>> >>,
       <<<<"c", "o", "n", "s", "u", "l", "t", "i", "n", "g">>, <<<<"c", "o", "n", "s", "u", "l", "t", "i", "n", "g">>, <<"a", "d", "v", "i", "s", "o", "r", "y">>, <<"c", "o", "n", "s", "u", "l", "t", "a", "n", "t", "s">>, <<"s", "o", "l", "u", "t", "i", "o", "n", "s">>>> >>,
       <<<<"m", "a", "n", "u", "f", "a", "c", "t", "u", "r", "i", "n", "g">>, <<<<"m", "a", "n", "u", "f", "a", "c", "t", "u", "r", "i", "n", "g">>, <<"i", "n", "d", "u", "s", "t", "r", "i", "a", "l">>, <<"f", "a", "c", "t", "o", "r", "y">>,
                              <<"p", "r", "o", "d", "u", "c", "t", "i", "o", "n">>>> >>,
       <<<<"r", "e", "t", "a", "i", "l">>, <<<<"r", "e", "t", "a", "i", "l">>, <<"s", "t", "o", "r", "e">>, <<"s", "h", "o", "p">>, <<"c", "o", "m", "m", "e", "r", "c", "e">>, <<"m", "a", "r", "k", "e", "t">>>> >>,
       <<<<"h", "o", "s", "p", "i", "t", "a", "l", "i", "t", "y">>, <<<<"h", "o", "t", "e", "l">>, <<"r", "e", "s", "t", "a", "u", "r", "a", "n", "t">>, <<"h", "o", "s", "p", "i", "t", "a", "l", "i", "t", "y">>, <<"r", "e", "s", "o", "r", "t">>,
                            <<"t", "r", "a", "v", "e", "l">>>> >>,
       <<<<"e", "d", "u", "c", "a", "t", "i", "o", "n">>, <<<<"u", "n", "i", "v", "e", "r", "s", "i", "t", "y">>, <<"c", "o", "l", "l", "e", "g", "e">>, <<"s", "c", "h", "o", "o", "l">>, <<"e", "d", "u", "c", "a", "t", "i", "o", "n">>,
                          <<"a", "c", "a", "d", "e", "m", "y">>, <<"i", "n", "s", "t", "i", "t", "u", "t", "e">>>> >>,
       <<<<"c", "o", "n", "s", "t", "r", "u", "c", "t", "i", "o", "n">>, <<<<"c", "o", "n", "s", "t", "r", "u", "c", "t", "i", "o", "n">>, <<"b", "u", "i", "l", "d", "i", "n", "g">>, <<"c", "o", "n", "t", "r", "a", "c", "t", "o", "r">>,
                             <<"a", "r", "c", "h", "i", "t", "e", "c", "t">>>> >>,
       <<<<"m", "a", "r", "k", "e", "t", "i", "n", "g">>, <<<<"m", "a", "r", "k", "e", "t", "i", "n", "g">>, <<"a", "d", "v", "e", "r", "t", "i", "s", "i", "n", "g">>, <<"m", "e", "d", "i", "a">>, <<"c", "r", "e", "a", "t", "i", "v", "e">>,
                          <<"a", "g", "e", "n", "c", "y">>>> >> >>

\* first index at or after i where w occurs in s, 0 if none
IndexOf(s, w, i) ==
    LET hits == {k \in i..(Len(s) - Len(w) + 1) : OccursAt(s, w, k)}
    IN IF hits = {} THEN 0 ELSE CHOOSE k \in hits : \A j \in hits : k <= j

\* str.replace(w, ""): the non-overlapping occurrences, left to right
RemoveLiteral(s, w) ==
    LET M(t, i) == IF OccursAt(t, w, i) THEN i + Len(w) ELSE 0 IN ReSub(s, M, Delete)

\* urlparse(url).netloc for a url that contains "://": the text between the
\* "//" and the next "/", "?" or "#"
NetLoc(url) ==
    LET start == IndexOf(url, <<":", "/", "/">>, 1) + 3
        stops == {k \in start..Len(url) : url[k] \in {"/", "?", "#"}}
        stop == IF stops = {} THEN Len(url) + 1 ELSE CHOOSE k \in stops : \A j \in stops : k <= j
    IN SubSeq(url, start, stop - 1)

\* CompanyEnricher._extract_domain
ExtractDomain(email, website) ==
    LET url == IF Contains(website, <<":", "/", "/">>) THEN website ELSE <<"h", "t", "t", "p", "s", ":", "/", "/">> \o website
        wdomain == RemoveLiteral(NetLoc(url), <<"w", "w", "w", ".">>)
        edomain == StrLower(SplitOn(email, "@")[2])
    IN IF website # <<>> /\ wdomain # <<>> /\ Contains(wdomain, <<".">>)
       THEN StrLower(wdomain)
       ELSE IF email # <<>> /\ Contains(email, <<"@">>) /\ edomain \notin PERSONAL_EMAIL_DOMAINS
       THEN edomain
       ELSE <<>>

\* CompanyEnricher._detect_industry
DetectIndustry(company_name) ==
    LET name_lower == StrLower(company_name)
        hits == {k \in DOMAIN INDUSTRY_KEYWORDS :
                   ContainsAny(name_lower, INDUSTRY_KEYWORDS[k][2])}
    IN IF company_name = <<>> \/ hits = {} THEN <<>>
       ELSE INDUSTRY_KEYWORDS[CHOOSE k \in hits : \A j \in hits : k <= j][1]

\* CompanyEnricher._build_linkedin_url
BuildLinkedinUrl(company_name) ==
    LET kept == Strip(Keep(company_name, Alnum \cup Space))
        clean_name == StrLower([k \in DOMAIN kept |-> IF kept[k] = " " THEN "-" ELSE kept[k]])
    IN IF company_name # <<>> /\ clean_name # <<>>
       THEN <<"h", "t", "t", "p", "s", ":", "/", "/", "w", "w", "w", ".", "l", "i", "n", "k", "e", "d", "i", "n", ".", "c", "o", "m", "/", "c", "o", "m", "p", "a", "n", "y", "/">> \o clean_name
       ELSE <<>>

\* CompanyEnricher.enrich(company_name, email, website) followed by to_dict()
CompanyEnrich(company_name, email, website) ==
    LET domain == ExtractDomain(email, website)
        industry == DetectIndustry(company_name)
    IN [name |-> company_name,
        domain |-> domain,
        logo_url |-> IF domain # <<>> THEN CLEARBIT_LOGO_URL \o <<"/">> \o domain ELSE <<>>,
        industry |-> industry,
        description |-> <<>>,
        linkedin_url |-> BuildLinkedinUrl(company_name),
        twitter_handle |-> <<>>,
        facebook_url |-> <<>>,
        headquarters |-> <<>>,
        enrichment_sources |->
            (IF domain # <<>> THEN <<"clearbit_logo_url">> ELSE <<>>)
            \o (IF industry # <<>> THEN <<"keyword_analysis">> ELSE <<>>),
        enrichment_errors |-> <<>>]

-----------------------------------------------------------------------------
(* Field confidence: src/src/enrichment.py, FieldConfidenceScorer.
   Field scores are in hundredths; base_confidence and overall are in 1/10000. *)

\* ^[a-zA-Z0-9._%+-]+@[a-zA-Z0-9.-]+\.[a-zA-Z]{2,}$
EMAIL_PATTERN == CompanyEmailPattern \o <<End>>
\* ^(?:https?://)?(?:www\.)?[a-zA-Z0-9-]+\.[a-zA-Z]{2,}
URL_PATTERN == CompanyUrlPattern

\* NAME_PATTERN ^[A-Z][a-z]+(?:\s+[A-Z][a-z]+)+$ matches name
NamePatternMatches(name) ==
    LET words == SplitWS(name)
        proper(w) == Len(w) >= 2 /\ w[1] \in Upper /\ \A k \in 2..Len(w) : w[k] \in Lower
    IN /\ name # <<>>
       /\ name[1] \notin Space
       /\ name[Len(name)] \notin Space
       /\ Len(words) >= 2
       /\ \A k \in DOMAIN words : proper(words[k])

\* OCR_ERROR_PATTERNS: some pattern is found in s
HasOcrErrorPattern(s) ==
    \/ CountIn(s, Digit) > 0
    \/ \E i \in DOMAIN s : RunEnd(s, i, {"|", "!", "1", "l"}) - i >= 2
    \/ \E i \in DOMAIN s : RunEnd(s, i, Space) - i >= 3

\* str.title()
Title(s) ==
    [i \in DOMAIN s |->
        IF s[i] \notin Letter THEN s[i]
        ELSE IF i = 1 \/ s[i - 1] \notin Letter THEN ToUpperCh(s[i]) ELSE ToLowerCh(s[i])]

Clamp(score) == Min(Max(score, 0), 100)

\* FieldConfidenceScorer._score_name: <<score, quality>>
ScoreName(name) ==
    LET pattern == NamePatternMatches(name)
        word_count == Len(SplitWS(name))
        errors == HasOcrErrorPattern(name)
        titled == name = Title(name)
        score == 50 + (IF pattern THEN 30 ELSE 0)
                    + (IF 2 <= word_count /\ word_count <= 4 THEN 10 ELSE 0)
                    - (IF errors THEN 30 ELSE 0)
                    + (IF titled THEN 10 ELSE 0)
        quality == IF errors THEN "suspicious"
                   ELSE IF titled THEN "verified"
                   ELSE IF pattern THEN "likely" ELSE "uncertain"
    IN IF name = <<>> THEN <<0, "missing">> ELSE <<Clamp(score), quality>>

\* FieldConfidenceScorer._score_email: <<score, quality>>
ScoreEmail(email) ==
    LET domain == StrLower(SplitOn(email, "@")[2])
        parts == SplitOn(domain, ".")
        tld == parts[Len(parts)]
        business == domain \notin {<<"g", "m", "a", "i", "l", ".", "c", "o", "m">>, <<"y", "a", "h", "o", "o", ".", "c", "o", "m">>, <<"h", "o", "t", "m", "a", "i", "l", ".", "c", "o", "m">>,
                                   <<"o", "u", "t", "l", "o", "o", "k", ".", "c", "o", "m">>}
        known == tld \in {<<"c", "o", "m">>, <<"o", "r", "g">>, <<"n", "e", "t">>, <<"e", "d", "u">>, <<"g", "o", "v">>, <<"i", "o">>, <<"c", "o">>}
    IN IF email = <<>> THEN <<0, "missing">>
       ELSE IF RegexMatch(EMAIL_PATTERN, email, 1) # 0
       THEN <<Min(80 + (IF business THEN 10 ELSE 0) + (IF known THEN 10 ELSE 0), 100),
              IF business THEN "business_email" ELSE "valid_format">>
       ELSE IF Contains(email, <<"@">>) /\ Contains(email, <<".">>) THEN <<40, "suspicious">>
       ELSE <<0, "invalid">>

\* FieldConfidenceScorer._score_phone: <<score, quality>>
ScorePhone(phone) ==
    LET clean_phone == Drop(phone[1], Space \cup {".", "-", "(", ")"})
        digit_count == CountIn(clean_phone, Digit)
        code == clean_phone # <<>> /\ clean_phone[1] \in {"+", "1"}
    IN IF phone = <<>> THEN <<0, "missing">>
       ELSE IF 7 <= digit_count /\ digit_count <= 15
       THEN <<Min((IF digit_count >= 10 THEN 90 ELSE 70) + (IF code THEN 10 ELSE 0), 100),
              IF digit_count >= 10 THEN "complete" ELSE "partial">>
       ELSE IF digit_count > 0 THEN <<30, "partial">>
       ELSE <<0, "invalid">>

\* FieldConfidenceScorer._score_company
ScoreCompany(company) ==
    LET indicators == <<<<"i", "n", "c">>, <<"l", "l", "c">>, <<"l", "t", "d">>, <<"c", "o", "r", "p">>, <<"c", "o">>, <<"c", "o", "m", "p", "a", "n", "y">>,
                        <<"g", "r", "o", "u", "p">>, <<"i", "n", "t", "e", "r", "n", "a", "t", "i", "o", "n", "a", "l">>>>
    IN IF company = <<>> THEN 0
       ELSE Clamp(60 + (IF 3 <= Len(company) /\ Len(company) <= 100 THEN 20 ELSE 0)
                     + (IF ContainsAny(StrLower(company), indicators) THEN 10 ELSE 0)
                     - (IF HasOcrErrorPattern(company) THEN 20 ELSE 0))

\* FieldConfidenceScorer._score_title
ScoreTitle(title) ==
    LET title_keywords ==
          <<<<"m", "a", "n", "a", "g", "e", "r">>, <<"d", "i", "r", "e", "c", "t", "o", "r">>, <<"p", "r", "e", "s", "i", "d", "e", "n", "t">>, <<"c", "e", "o">>, <<"c", "t", "o">>, <<"c", "f", "o">>, <<"v", "p">>,
            <<"e", "n", "g", "i", "n", "e", "e", "r">>, <<"d", "e", "v", "e", "l", "o", "p", "e", "r">>, <<"d", "e", "s", "i", "g", "n", "e", "r">>, <<"a", "n", "a", "l", "y", "s", "t">>, <<"c", "o", "n", "s", "u", "l", "t", "a", "n", "t">>,
            <<"a", "g", "e", "n", "t">>, <<"s", "p", "e", "c", "i", "a", "l", "i", "s", "t">>, <<"c", "o", "o", "r", "d", "i", "n", "a", "t", "o", "r">>, <<"l", "e", "a", "d">>, <<"s", "e", "n", "i", "o", "r">>, <<"f", "o", "u", "n", "d", "e", "r">>,
            <<"o", "w", "n", "e", "r">>, <<"p", "a", "r", "t", "n", "e", "r">>, <<"a", "s", "s", "o", "c", "i", "a", "t", "e">>, <<"e", "x", "e", "c", "u", "t", "i", "v", "e">>, <<"o", "f", "f", "i", "c", "e", "r">>>>
    IN IF title = <<>> THEN 0
       ELSE Min(50 + (IF ContainsAny(StrLower(title), title_keywords) THEN 40 ELSE 0)
                   + (IF 3 <= Len(title) /\ Len(title) <= 50 THEN 10 ELSE 0), 100)

\* FieldConfidenceScorer._score_website
ScoreWebsite(website) ==
    IF website = <<>> THEN 0
    ELSE IF RegexMatch(URL_PATTERN, website, 1) # 0 THEN 90
    ELSE IF Contains(website, <<".">>) THEN 50
    ELSE 20

\* \b\d{5}(?:-\d{4})?\b and \b[A-Z]{2}\b
ZipPattern == <<Bnd, Cls(Digit, 5, 5), Opt(6), Lit(<<"-">>, FALSE), Cls(Digit, 4, 4), Bnd>>
StatePattern == <<Bnd, Cls(Upper, 2, 2), Bnd>>

\* FieldConfidenceScorer._score_address
ScoreAddress(address) ==
    LET indicators == <<<<"s", "t", "r", "e", "e", "t">>, <<"s", "t">>, <<"a", "v", "e", "n", "u", "e">>, <<"a", "v", "e">>, <<"r", "o", "a", "d">>, <<"r", "d">>,
                        <<"d", "r", "i", "v", "e">>, <<"d", "r">>, <<"s", "u", "i", "t", "e">>, <<"f", "l", "o", "o", "r">>, <<"b", "u", "i", "l", "d", "i", "n", "g">>, <<"b", "l", "v", "d">>,
                        <<"l", "a", "n", "e">>, <<"l", "n">>, <<"w", "a", "y">>>>
    IN IF address = <<>> THEN 0
       ELSE Min(40 + (IF ContainsAny(StrLower(address), indicators) THEN 30 ELSE 0)
                   + (IF Found(address, ZipPattern) THEN 20 ELSE 0)
                   + (IF Found(address, StatePattern) THEN 10 ELSE 0), 100)

\* FieldConfidenceScorer._score_linkedin
ScoreLinkedin(linkedin) ==
    IF linkedin = <<>> THEN 0
    ELSE IF Contains(StrLower(linkedin), <<"l", "i", "n", "k", "e", "d", "i", "n", ".", "c", "o", "m">>) THEN 95
    ELSE IF OccursAt(linkedin, <<"i", "n", "/">>, 1) THEN 70
    ELSE 30

\* weights of score_all_fields, in hundredths
weights ==
    [name |-> 25, email |-> 25, phone |-> 15, company |-> 15, title |-> 10,
     website |-> 5, address |-> 3, linkedin |-> 2]

RECURSIVE SumOver(_, _)
SumOver(f, S) ==
    IF S = {} THEN 0
    ELSE LET x == CHOOSE y \in S : TRUE IN f[x] + SumOver(f, S \ {x})

\* a score_all_fields that multiplies the weighted sum by the base confidence
\* without dividing by the weight of the populated fields
ScoreAllFieldsUnnormalised(base, contact_data) ==
    LET n == ScoreName(Get(contact_data, "name"))
        e == ScoreEmail(Get(contact_data, "email"))
        p == ScorePhone(Get(contact_data, "phone"))
        score == [name |-> n[1], email |-> e[1], phone |-> p[1],
                  company |-> ScoreCompany(Get(contact_data, "company")),
                  title |-> ScoreTitle(Get(contact_data, "title")),
                  website |-> ScoreWebsite(Get(contact_data, "website")),
                  address |-> ScoreAddress(Get(contact_data, "address")),
                  linkedin |-> ScoreLinkedin(Get(contact_data, "linkedin"))]
        counted == {f \in DOMAIN weights : score[f] > 0}
        weighted_sum == SumOver([f \in DOMAIN weights |-> score[f] * weights[f]], counted)
    IN [name |-> score.name, title |-> score.title, company |-> score.company,
        email |-> score.email, phone |-> score.phone, website |-> score.website,
        address |-> score.address, linkedin |-> score.linkedin,
        overall |-> (weighted_sum * base) \div 100,
        name_quality |-> n[2], email_quality |-> e[2], phone_quality |-> p[2]]

\* a score_all_fields whose mean is taken over all eight weights, the
\* weights of absent fields included in the denominator
ScoreAllFieldsOverAllWeights(base, contact_data) ==
    LET n == ScoreName(Get(contact_data, "name"))
        e == ScoreEmail(Get(contact_data, "email"))
        p == ScorePhone(Get(contact_data, "phone"))
        score == [name |-> n[1], email |-> e[1], phone |-> p[1],
                  company |-> ScoreCompany(Get(contact_data, "company")),
                  title |-> ScoreTitle(Get(contact_data, "title")),
                  website |-> ScoreWebsite(Get(contact_data, "website")),
                  address |-> ScoreAddress(Get(contact_data, "address")),
                  linkedin |-> ScoreLinkedin(Get(contact_data, "linkedin"))]
        weighted_sum == SumOver([f \in DOMAIN weights |-> score[f] * weights[f]], DOMAIN weights)
    IN [name |-> score.name, title |-> score.title, company |-> score.company,
        email |-> score.email, phone |-> score.phone, website |-> score.website,
        address |-> score.address, linkedin |-> score.linkedin,
        overall |-> (weighted_sum * base) \div (SumOver(weights, DOMAIN weights) * 100),
        name_quality |-> n[2], email_quality |-> e[2], phone_quality |-> p[2]]

\* FieldConfidenceScorer.score_all_fields(contact_data) with
\* base_confidence = base, as a FieldConfidence
ScoreAllFields(base, contact_data) ==
    LET n == ScoreName(Get(contact_data, "name"))
        e == ScoreEmail(Get(contact_data, "email"))
        p == ScorePhone(Get(contact_data, "phone"))
        score == [name |-> n[1], email |-> e[1], phone |-> p[1],
                  company |-> ScoreCompany(Get(contact_data, "company")),
                  title |-> ScoreTitle(Get(contact_data, "title")),
                  website |-> ScoreWebsite(Get(contact_data, "website")),
                  address |-> ScoreAddress(Get(contact_data, "address")),
                  linkedin |-> ScoreLinkedin(Get(contact_data, "linkedin"))]
        counted == {f \in DOMAIN weights : score[f] > 0}
        weighted_sum == SumOver([f \in DOMAIN weights |-> score[f] * weights[f]], counted)
        total_weight == SumOver(weights, counted)
    IN [name |-> score.name, title |-> score.title, company |-> score.company,
        email |-> score.email, phone |-> score.phone, website |-> score.website,
        address |-> score.address, linkedin |-> score.linkedin,
        overall |-> IF total_weight > 0
                    THEN (weighted_sum * base) \div (total_weight * 100) ELSE 0,
        name_quality |-> n[2], email_quality |-> e[2], phone_quality |-> p[2]]

-----------------------------------------------------------------------------
(* VLM fallback: src/src/vlm_ocr.py and CardResearchPipeline._process_with_gemini *)

\* dict[key] = value on a copy of d
Put(d, k, v) == [x \in DOMAIN d \cup {k} |-> IF x = k THEN v ELSE d[x]]

\* GeminiOCR.extract once the response has been parsed into data: the VLMResult.
\* confidence = min(valid_fields / 5, 1.0) * 0.95, in 1/10000
VlmExtract(data) ==
    LET fields == <<"name", "email", "phone", "company", "title">>
        valid_fields == Cardinality({k \in DOMAIN fields : Get(data, fields[k]) # <<>>})
    IN [success |-> TRUE,
        name |-> Get(data, "name"),
        title |-> Get(data, "title"),
        company |-> Get(data, "company"),
        email |-> Get(data, "email"),
        phone |-> Get(data, "phone"),
        website |-> Get(data, "website"),
        address |-> Get(data, "address"),
        linkedin |-> Get(data, "linkedin"),
        raw_text |-> Get(data, "raw_text"),
        confidence |-> (Min(valid_fields * 2000, 10000) * 95) \div 100]

\* what gemini_ocr.extract does for one outcome of the remote call:
\* a VLMResult, or "raise" when the collaborator throws
VlmCall(outcome) ==
    IF outcome.kind = "data" THEN VlmExtract(outcome.data)
    ELSE IF outcome.kind = "failed" THEN [success |-> FALSE, error |-> outcome.error]
    ELSE "raise"

\* name.split()[0] and " ".join(name.split()[1:]) as the pipeline computes them
FirstName(name) == IF name # <<>> THEN SplitWS(name)[1] ELSE <<>>
LastName(name) ==
    IF name # <<>> /\ Len(SplitWS(name)) > 1 THEN Join(Tail(SplitWS(name)), <<" ">>) ELSE <<>>

\* the conversion inside _process_with_gemini raises IndexError when the name
\* holds only whitespace
GeminiConversionRaises(vlm) == vlm.name # <<>> /\ SplitWS(vlm.name) = <<>>

\* _process_with_gemini for one outcome of the call: the dict, or <<>> for None
ProcessWithGemini(outcome) ==
    LET vlm == VlmCall(outcome) IN
    IF outcome.kind = "raise" THEN <<>>
    ELSE IF ~vlm.success THEN <<>>
    ELSE IF GeminiConversionRaises(vlm) THEN <<>>
    ELSE [name |-> vlm.name,
          first_name |-> FirstName(vlm.name),
          last_name |-> LastName(vlm.name),
          title |-> vlm.title,
          company |-> vlm.company,
          email |-> vlm.email,
          phone |-> vlm.phone,
          website |-> vlm.website,
          address |-> vlm.address,
          linkedin |-> vlm.linkedin,
          confidence_score |-> vlm.confidence,
          raw_text |-> vlm.raw_text,
          ocr_method |-> "gemini"]

\* the records _process_with_gemini logs for that outcome
ProcessWithGeminiLog(outcome) ==
    IF outcome.kind = "raise" THEN <<"error: Gemini processing failed">>
    ELSE IF outcome.kind = "data" /\ GeminiConversionRaises(VlmCall(outcome))
    THEN <<"error: Gemini processing failed">>
    ELSE <<>>

-----------------------------------------------------------------------------
(* Researcher enrichment: src/src/researcher.py *)

\* EnrichedData().to_dict(): nothing found
EmptyEnrichedDict ==
    [email_verified |-> "None", email_deliverable |-> "None", email_score |-> "None",
     company_info |-> <<>>, social_profiles |-> <<>>, github_profile |-> <<>>,
     enrichment_sources |-> <<>>, enrichment_errors |-> <<>>]

personal_domains ==
    {<<"g", "m", "a", "i", "l", ".", "c", "o", "m">>, <<"y", "a", "h", "o", "o", ".", "c", "o", "m">>, <<"h", "o", "t", "m", "a", "i", "l", ".", "c", "o", "m">>, <<"o", "u", "t", "l", "o", "o", "k", ".", "c", "o", "m">>, <<"a", "o", "l", ".", "c", "o", "m">>,
     <<"i", "c", "l", "o", "u", "d", ".", "c", "o", "m">>}

\* The five calls of the researcher.  Each has a credential (api_keys: the
\* researcher's hunter_api_key, abstract_api_key, github_token, TRUE when set)
\* and an answer (api_answers: "data" a non-empty response, "none" an empty
\* one, "raise" the request fails).
Sources == {"hunter_email", "abstract", "hunter_domain", "github_email", "github_name"}
ApiAnswers == {"data", "none", "raise"}
\* the call of source s is made: the history of calls and what the call did
Attempt(e, s) == [e EXCEPT !.attempted = @ \cup {s}]
AddSource(e, label) ==
    IF InSeq(label, e.dict.enrichment_sources) THEN e
    ELSE [e EXCEPT !.dict.enrichment_sources = Append(@, label)]
AddError(e, error_msg) == [e EXCEPT !.dict.enrichment_errors = Append(@, error_msg)]

\* FreeLeadResearcher._enrich_email
EnrichEmail(e, email, keys, answers) ==
    LET hunter ==
          IF ~keys.hunter THEN e
          ELSE IF answers.hunter_email = "data"
          THEN [Attempt(e, "hunter_email") EXCEPT
                  !.dict.email_verified = "True", !.dict.email_score = "85",
                  !.dict.enrichment_sources = Append(@, "hunter.io")]
          ELSE IF answers.hunter_email = "raise"
          THEN AddError(Attempt(e, "hunter_email"), "Hunter API error")
          ELSE Attempt(e, "hunter_email")
    IN IF ~keys.abstract THEN hunter
       ELSE IF answers.abstract = "data"
       THEN [Attempt(hunter, "abstract") EXCEPT
               !.dict.email_deliverable = "True",
               !.dict.email_score = IF @ = "None" THEN "70" ELSE @,
               !.dict.enrichment_sources = Append(@, "abstract_api")]
       ELSE IF answers.abstract = "raise"
       THEN AddError(Attempt(hunter, "abstract"), "Abstract API error")
       ELSE Attempt(hunter, "abstract")

\* FreeLeadResearcher._enrich_company
EnrichCompany(e, email, keys, answers) ==
    LET domain == IF email # <<>> /\ Contains(email, <<"@">>) THEN SplitOn(email, "@")[2]
                  ELSE <<>>
        company_domain == IF domain \in personal_domains THEN <<>> ELSE domain
    IN IF ~(company_domain # <<>> /\ keys.hunter) THEN e
       ELSE IF answers.hunter_domain = "data"
       THEN AddSource([Attempt(e, "hunter_domain") EXCEPT
                         !.dict.company_info = [domain |-> company_domain]],
                      "hunter.io")
       ELSE IF answers.hunter_domain = "raise"
       THEN AddError(Attempt(e, "hunter_domain"), "Hunter domain search error")
       ELSE Attempt(e, "hunter_domain")

GithubProfile == [html_url |-> <<"h", "t", "t", "p", "s", ":", "/", "/", "g", "i", "t", "h", "u", "b", ".", "c", "o", "m", "/", "a", "l">>]
FoundOnGithub(e) ==
    [e EXCEPT !.dict.github_profile = GithubProfile,
              !.dict.social_profiles = [github |-> GithubProfile.html_url]]

\* _enrich_github without the fall-back to the name search after a search by
\* e-mail that raised
EnrichGithubEmailOnly(e, contact, keys, answers) ==
    LET by_email ==
          IF contact.email = <<>> THEN e
          ELSE IF answers.github_email = "raise"
          THEN AddError(Attempt(e, "github_email"), "GitHub email search error")
          ELSE Attempt(e, "github_email")
        returned == contact.email # <<>> /\ answers.github_email \in {"data", "raise"}
    IN IF ~keys.github THEN e
       ELSE IF contact.email # <<>> /\ answers.github_email = "data"
       THEN [FoundOnGithub(by_email) EXCEPT !.dict.enrichment_sources = Append(@, "github")]
       ELSE IF returned \/ contact.name = <<>> THEN by_email
       ELSE IF answers.github_name = "data"
       THEN AddSource(FoundOnGithub(Attempt(by_email, "github_name")), "github")
       ELSE IF answers.github_name = "raise"
       THEN AddError(Attempt(by_email, "github_name"), "GitHub name search error")
       ELSE Attempt(by_email, "github_name")

\* FreeLeadResearcher._enrich_github
EnrichGithub(e, contact, keys, answers) ==
    LET by_email ==
          IF contact.email = <<>> THEN e
          ELSE IF answers.github_email = "raise"
          THEN AddError(Attempt(e, "github_email"), "GitHub email search error")
          ELSE Attempt(e, "github_email")
        returned == contact.email # <<>> /\ answers.github_email = "data"
    IN IF ~keys.github THEN e
       ELSE IF returned
       THEN [FoundOnGithub(by_email) EXCEPT !.dict.enrichment_sources = Append(@, "github")]
       ELSE IF contact.name = <<>> THEN by_email
       ELSE IF answers.github_name = "data"
       THEN AddSource(FoundOnGithub(Attempt(by_email, "github_name")), "github")
       ELSE IF answers.github_name = "raise"
       THEN AddError(Attempt(by_email, "github_name"), "GitHub name search error")
       ELSE Attempt(by_email, "github_name")

\* FreeLeadResearcher.enrich: the EnrichedData it returns, as to_dict() gives
\* it, and the calls it made; contact is ContactData(name, email, company)
Enrich(contact, keys, answers) ==
    LET start == [dict |-> EmptyEnrichedDict, attempted |-> {}]
        with_email == IF contact.email # <<>>
                      THEN EnrichEmail(start, contact.email, keys, answers)
                      ELSE start
        with_company ==
          IF contact.company # <<>> \/ (contact.email # <<>> /\ Contains(contact.email, <<"@">>))
          THEN EnrichCompany(with_email, contact.email, keys, answers)
          ELSE with_email
    IN IF contact.email # <<>> \/ contact.name # <<>>
       THEN EnrichGithub(with_company, contact, keys, answers)
       ELSE with_company

\* the researchers process_image is run with: only the Hunter key is set and
\* Hunter answers as api says ("off": no key at all, "ok": answers, "error":
\* every request fails)
ScenarioKeys(api) == [hunter |-> api # "off", abstract |-> FALSE, github |-> FALSE]
ScenarioAnswers(api) == [s \in Sources |-> IF api = "ok" THEN "data" ELSE "raise"]
\* researcher.enrich(contact_obj).to_dict() in process_image
ResearcherEnrich(contact, api) ==
    Enrich([name |-> Get(contact, "name"), email |-> Get(contact, "email"),
            company |-> Get(contact, "company")],
           ScenarioKeys(api), ScenarioAnswers(api)).dict

\* Python truthiness of the value stored under key k
Truthy(k, v) ==
    IF k \in {"email_verified", "email_deliverable", "email_score", "ocr_method"}
    THEN v \notin {"None", "False", "0", ""}
    ELSE IF k = "confidence_score" THEN v # 0
    ELSE v # <<>>

\* a merge that lacks the "value and" test of the loop: every entry of
\* enriched_dict that the contact does not hold is copied, empty or not
MergeEnrichmentAll(contact, enriched_dict) ==
    LET written == {k \in DOMAIN enriched_dict :
                      ~(k \in DOMAIN contact /\ Truthy(k, contact[k]))}
    IN [k \in DOMAIN contact \cup written |->
          IF k \in written THEN enriched_dict[k] ELSE contact[k]]

\* "Merge enrichment safely": the loop over enriched_dict.items()
MergeEnrichment(contact, enriched_dict) ==
    LET written == {k \in DOMAIN enriched_dict :
                      /\ Truthy(k, enriched_dict[k])
                      /\ ~(k \in DOMAIN contact /\ Truthy(k, contact[k]))}
    IN [k \in DOMAIN contact \cup written |->
          IF k \in written THEN enriched_dict[k] ELSE contact[k]]

\* a company merge written as final_contact.update(...) of every non-empty
\* entry of the enrichment
MergeCompanyUpdate(contact, company_data) ==
    LET written == {k \in DOMAIN company_data : company_data[k] # <<>>}
    IN [k \in DOMAIN contact \cup written |->
          IF k \in written THEN company_data[k] ELSE contact[k]]

\* "Add logo URL to contact if found" and the industry
MergeCompany(contact, company_data) ==
    LET with_logo == IF company_data.logo_url # <<>>
                     THEN Put(contact, "company_logo", company_data.logo_url)
                     ELSE contact
    IN IF company_data.industry # <<>>
       THEN Put(with_logo, "industry", company_data.industry)
       ELSE with_logo

-----------------------------------------------------------------------------
(* Field extraction: src/src/parser.py *)

\* Python re.search(pattern, s).start(): the first position at which the
\* pattern matches, 0 when it matches nowhere
SearchAt(s, M(_, _)) == LeastOrZero({i \in 1..Len(s) : M(s, i) > i})

\* end of a greedy group class{lo,} that starts at p and is followed by rest:
\* the longest repetition after which rest matches, 0 when there is none
GreedyEnd(s, p, class, lo, rest) ==
    GreatestOrZero({q \in (p + lo)..RunEnd(s, p, class) : RegexMatch(rest, s, q) # 0})

\* the first of the words that occurs in s at p (an alternation, tried in order)
FirstWordAt(s, words, p) ==
    LET hits == {k \in DOMAIN words : OccursAtI(s, words[k], p)}
    IN IF hits = {} THEN <<>> ELSE words[CHOOSE k \in hits : \A j \in hits : k <= j]

\* CardDataParser.PATTERNS["email"]  (IGNORECASE)
\* \b[A-Za-z0-9._%+-]+\s*[@g]\s*[A-Za-z0-9.-]+\s*\.\s*[A-Z|a-z]{2,}\b
ParserEmailPattern ==
    <<Bnd, CPlus(Alnum \cup {".", "_", "%", "+", "-"}), CStar(Space),
      Cls({"@", "g", "G"}, 1, 1), CStar(Space), CPlus(Alnum \cup {".", "-"}),
      CStar(Space), Lit(<<".">>, FALSE), CStar(Space), Cls(Letter \cup {"|"}, 2, -1), Bnd>>
ParserEmailMatch(s, i) == RegexMatch(ParserEmailPattern, s, i)

GorAt == {"g", "G", "@"}
EmailPrefixes1 == <<<<"i", "n", "f", "o">>, <<"c", "o", "n", "t", "a", "c", "t">>, <<"h", "e", "l", "l", "o">>, <<"s", "u", "p", "p", "o", "r", "t">>, <<"a", "d", "m", "i", "n">>, <<"s", "a", "l", "e", "s">>>>
EmailPrefixes3 == <<<<"i", "n", "f", "o">>, <<"c", "o", "n", "t", "a", "c", "t">>, <<"h", "e", "l", "l", "o">>, <<"s", "u", "p", "p", "o", "r", "t">>>>
EmailTlds1 == <<<<"c", "o", "m">>, <<"o", "r", "g">>, <<"n", "e", "t">>>>
EmailTlds2 == <<<<"c", "o", "m">>, <<"o", "r", "g">>, <<"n", "e", "t">>, <<"i", "o">>, <<"c", "o">>>>
WebsiteName == <<"w", "e", "b", "s", "i", "t", "e", "n", "a", "m", "e">>

\* (info|contact|hello|support|admin|sales)[g@]?(website|domain)?name\.?(com|org|net)
EmailNoise1 ==
    <<Alt(EmailPrefixes1, TRUE), Cls(GorAt, 0, 1), Opt(5),
      Alt(<<<<"w", "e", "b", "s", "i", "t", "e">>, <<"d", "o", "m", "a", "i", "n">>>>, TRUE), Lit(<<"n", "a", "m", "e">>, TRUE), Cls({"."}, 0, 1),
      Alt(EmailTlds1, TRUE)>>
EmailNoise1Match(s, i) == RegexMatch(EmailNoise1, s, i)
\* ([a-z0-9._+-]+)[g@]([a-z0-9.-]+)(com|org|net|io|co)
EmailNoise2Local == Alnum \cup {".", "_", "+", "-"}
EmailNoise2Domain == Alnum \cup {".", "-"}
EmailNoise2 ==
    <<CPlus(EmailNoise2Local), Cls(GorAt, 1, 1), CPlus(EmailNoise2Domain),
      Alt(EmailTlds2, TRUE)>>
EmailNoise2Match(s, i) == RegexMatch(EmailNoise2, s, i)
\* (info|contact|hello|support)[g@]?([a-z]+)(com|org|net)
EmailNoise3 ==
    <<Alt(EmailPrefixes3, TRUE), Cls(GorAt, 0, 1), CPlus(Letter), Alt(EmailTlds1, TRUE)>>
EmailNoise3Match(s, i) == RegexMatch(EmailNoise3, s, i)

\* the address _extract_email builds from the three groups of a match
NoiseEmail(g0, g1, g2) ==
    LET domain == IF g1 \in {<<"w", "e", "b", "s", "i", "t", "e">>, <<"d", "o", "m", "a", "i", "n">>, <<>>} \/ Contains(g1, <<"n", "a", "m", "e">>)
                  THEN WebsiteName ELSE g1
    IN Drop(g0 \o <<"@">> \o domain \o <<".">> \o g2, Space)

\* the groups of the match of EmailNoise2 that starts at i
Noise2Groups(s, i) ==
    LET q == GreedyEnd(s, i, EmailNoise2Local, 1, SubSeq(EmailNoise2, 2, 4))
        r == GreedyEnd(s, q + 1, EmailNoise2Domain, 1, SubSeq(EmailNoise2, 4, 4))
    IN <<SubSeq(s, i, q - 1), SubSeq(s, q + 1, r - 1), FirstWordAt(s, EmailTlds2, r)>>
\* the groups of the match of EmailNoise3 that starts at i
Noise3Groups(s, i) ==
    LET g0 == FirstWordAt(s, EmailPrefixes3, i)
        p == i + Len(g0)
        with == IF p <= Len(s) /\ s[p] \in GorAt
                THEN GreedyEnd(s, p + 1, Letter, 1, SubSeq(EmailNoise3, 4, 4)) ELSE 0
        q == IF with # 0 THEN p + 1 ELSE p
        r == IF with # 0 THEN with
             ELSE GreedyEnd(s, p, Letter, 1, SubSeq(EmailNoise3, 4, 4))
    IN <<g0, SubSeq(s, q, r - 1), FirstWordAt(s, EmailTlds1, r)>>

\* CardDataParser._extract_email; None is <<>>
ExtractEmail(text) ==
    LET i == SearchAt(text, ParserEmailMatch)
        found == SubSeq(text, i, ParserEmailMatch(text, i) - 1)
        cleaned_text == Drop(StrLower(text), {";", ":", "'", " "})
        i1 == SearchAt(cleaned_text, EmailNoise1Match)
        e1 == EmailNoise1Match(cleaned_text, i1)
        i2 == SearchAt(cleaned_text, EmailNoise2Match)
        g2 == Noise2Groups(cleaned_text, i2)
        i3 == SearchAt(cleaned_text, EmailNoise3Match)
        g3 == Noise3Groups(cleaned_text, i3)
    IN IF i # 0 THEN Drop(Drop(StrLower(found), Space), {";", ":", "'"})
       ELSE IF i1 # 0
       THEN NoiseEmail(FirstWordAt(cleaned_text, EmailPrefixes1, i1), <<>>,
                       SubSeq(cleaned_text, e1 - 3, e1 - 1))
       ELSE IF i2 # 0 THEN NoiseEmail(g2[1], g2[2], g2[3])
       ELSE IF i3 # 0 THEN NoiseEmail(g3[1], g3[2], g3[3])
       ELSE <<>>

\* CardDataParser.PATTERNS["website"]  (IGNORECASE)
\* (?:https?://)?(?:www[.\s;:]?\s*)?[a-zA-Z0-9][a-zA-Z0-9-]*[.\s;:]+\s*(?:com|org|net|io|co|edu|gov|biz|info)
WebsiteSep == {".", ";", ":"} \cup Space
WebsiteTlds == <<<<"c", "o", "m">>, <<"o", "r", "g">>, <<"n", "e", "t">>, <<"i", "o">>, <<"c", "o">>, <<"e", "d", "u">>, <<"g", "o", "v">>, <<"b", "i", "z">>, <<"i", "n", "f", "o">>>>
ParserWebsitePattern ==
    <<Opt(5), Lit(<<"h", "t", "t", "p">>, TRUE), Cls({"s", "S"}, 0, 1), Lit(<<":", "/", "/">>, FALSE),
      Opt(9), Lit(<<"w", "w", "w">>, TRUE), Cls(WebsiteSep, 0, 1), CStar(Space),
      Cls(Alnum, 1, 1), CStar(Alnum \cup {"-"}), CPlus(WebsiteSep), CStar(Space),
      Alt(WebsiteTlds, TRUE)>>
ParserWebsiteMatch(s, i) == RegexMatch(ParserWebsitePattern, s, i)

\* (www[.\s;:]*[a-z0-9]+[a-z0-9.\s;:-]*\s*(com|org|net|io))  (IGNORECASE)
WebsiteNoise1 ==
    <<Lit(<<"w", "w", "w">>, TRUE), CStar(WebsiteSep), CPlus(Alnum),
      CStar(Alnum \cup WebsiteSep \cup {"-"}), CStar(Space),
      Alt(<<<<"c", "o", "m">>, <<"o", "r", "g">>, <<"n", "e", "t">>, <<"i", "o">>>>, TRUE)>>
WebsiteNoise1Match(s, i) == RegexMatch(WebsiteNoise1, s, i)
\* ([a-z0-9]+name[.\s;:]*com)  (IGNORECASE)
WebsiteNoise2 == <<CPlus(Alnum), Lit(<<"n", "a", "m", "e">>, TRUE), CStar(WebsiteSep), Lit(<<"c", "o", "m">>, TRUE)>>
WebsiteNoise2Match(s, i) == RegexMatch(WebsiteNoise2, s, i)
\* ([a-z0-9]+site[.\s;:]*com)  (IGNORECASE)
WebsiteNoise3 == <<CPlus(Alnum), Lit(<<"s", "i", "t", "e">>, TRUE), CStar(WebsiteSep), Lit(<<"c", "o", "m">>, TRUE)>>
WebsiteNoise3Match(s, i) == RegexMatch(WebsiteNoise3, s, i)

SocialDomains == <<<<"l", "i", "n", "k", "e", "d", "i", "n", ".", "c", "o", "m">>, <<"t", "w", "i", "t", "t", "e", "r", ".", "c", "o", "m">>, <<"f", "a", "c", "e", "b", "o", "o", "k", ".", "c", "o", "m">>>>
StartsWith(s, prefix) == OccursAt(s, prefix, 1)
HasProtocol(url) == StartsWith(url, <<"h", "t", "t", "p", ":", "/", "/">>) \/ StartsWith(url, <<"h", "t", "t", "p", "s", ":", "/", "/">>)

SpaceRunMatch(s, i) == RunEnd(s, i, Space)
ArtifactRunMatch(s, i) == RunEnd(s, i, {";", ":"} \cup Space)
DotRunMatch(s, i) == RunEnd(s, i, {"."})
OneDot(s, i, e) == <<".">>
\* the three re.sub calls that normalise a matched URL
SpaceRunsDeleted(url) == ReSub(url, SpaceRunMatch, Delete)
ArtifactRunsToDot(url) == ReSub(url, ArtifactRunMatch, OneDot)
DotRunsToDot(url) == ReSub(url, DotRunMatch, OneDot)
CleanUrl(url) == DotRunsToDot(ArtifactRunsToDot(SpaceRunsDeleted(url)))

\* email.split('@')[1] if email and '@' in email else None
EmailDomain(email) == IF CountIn(email, {"@"}) > 0 THEN SplitOn(email, "@")[2] ELSE <<>>

\* the lower-cased text with ';' and ':' replaced by '.'
WebsiteCleanedText(text) ==
    [i \in DOMAIN text |-> IF text[i] \in {";", ":"} THEN "." ELSE ToLowerCh(text[i])]

\* the matches of the standard pattern that the loop does not skip
WebsiteCandidates(text) ==
    LET found == StrLowerAll(FindAll(WebsiteCleanedText(text), ParserWebsiteMatch))
        kept(urls, email_domain) ==
          LET keep(url) == /\ ~(email_domain # <<>> /\ Contains(url, email_domain))
                           /\ ~ContainsAny(url, SocialDomains)
          IN SelectSeq(urls, keep)
    IN kept(found, EmailDomain(ExtractEmail(text)))

\* the first of the noisy patterns found in the cleaned text
WebsiteNoiseUrl(cleaned_text) ==
    LET i1 == SearchAt(cleaned_text, WebsiteNoise1Match)
        i2 == SearchAt(cleaned_text, WebsiteNoise2Match)
        i3 == SearchAt(cleaned_text, WebsiteNoise3Match)
    IN IF i1 # 0 THEN SubSeq(cleaned_text, i1, WebsiteNoise1Match(cleaned_text, i1) - 1)
       ELSE IF i2 # 0 THEN SubSeq(cleaned_text, i2, WebsiteNoise2Match(cleaned_text, i2) - 1)
       ELSE IF i3 # 0 THEN SubSeq(cleaned_text, i3, WebsiteNoise3Match(cleaned_text, i3) - 1)
       ELSE <<>>

\* url if url.startswith(('http://', 'https://')) else 'https://' + url
WithProtocol(url) == IF HasProtocol(url) THEN url ELSE <<"h", "t", "t", "p", "s", ":", "/", "/">> \o url
\* url if it starts with a protocol or 'www.', else 'www.' + url
WithWww(url) ==
    IF HasProtocol(url) \/ StartsWith(url, <<"w", "w", "w", ".">>) THEN url ELSE <<"w", "w", "w", ".">> \o url

\* CardDataParser._extract_website; None is <<>>
ExtractWebsite(text) ==
    LET chosen(primary, noisy) ==
          IF primary # <<>> THEN WithProtocol(CleanUrl(primary[1]))
          ELSE IF noisy = <<>> THEN <<>>
          ELSE WithProtocol(WithWww(CleanUrl(noisy)))
    IN chosen(WebsiteCandidates(text), WebsiteNoiseUrl(WebsiteCleanedText(text)))

\* the word lists of CardDataParser
US_STATES ==
    <<
    <<"a", "l", "a", "b", "a", "m", "a">>, <<"a", "l", "a", "s", "k", "a">>,
    <<"a", "r", "i", "z", "o", "n", "a">>, <<"a", "r", "k", "a", "n", "s", "a", "s">>,
    <<"c", "a", "l", "i", "f", "o", "r", "n", "i", "a">>,
    <<"c", "o", "l", "o", "r", "a", "d", "o">>,
    <<"c", "o", "n", "n", "e", "c", "t", "i", "c", "u", "t">>,
    <<"d", "e", "l", "a", "w", "a", "r", "e">>, <<"f", "l", "o", "r", "i", "d", "a">>,
    <<"g", "e", "o", "r", "g", "i", "a">>, <<"h", "a", "w", "a", "i", "i">>,
    <<"i", "d", "a", "h", "o">>, <<"i", "l", "l", "i", "n", "o", "i", "s">>,
    <<"i", "n", "d", "i", "a", "n", "a">>, <<"i", "o", "w", "a">>, <<"k", "a", "n", "s", "a", "s">>,
    <<"k", "e", "n", "t", "u", "c", "k", "y">>, <<"l", "o", "u", "i", "s", "i", "a", "n", "a">>,
    <<"m", "a", "i", "n", "e">>, <<"m", "a", "r", "y", "l", "a", "n", "d">>,
    <<"m", "a", "s", "s", "a", "c", "h", "u", "s", "e", "t", "t", "s">>,
    <<"m", "i", "c", "h", "i", "g", "a", "n">>, <<"m", "i", "n", "n", "e", "s", "o", "t", "a">>,
    <<"m", "i", "s", "s", "i", "s", "s", "i", "p", "p", "i">>,
    <<"m", "i", "s", "s", "o", "u", "r", "i">>, <<"m", "o", "n", "t", "a", "n", "a">>,
    <<"n", "e", "b", "r", "a", "s", "k", "a">>, <<"n", "e", "v", "a", "d", "a">>,
    <<"n", "e", "w", " ", "h", "a", "m", "p", "s", "h", "i", "r", "e">>,
    <<"n", "e", "w", " ", "j", "e", "r", "s", "e", "y">>,
    <<"n", "e", "w", " ", "m", "e", "x", "i", "c", "o">>,
    <<"n", "e", "w", " ", "y", "o", "r", "k">>,
    <<"n", "o", "r", "t", "h", " ", "c", "a", "r", "o", "l", "i", "n", "a">>,
    <<"n", "o", "r", "t", "h", " ", "d", "a", "k", "o", "t", "a">>, <<"o", "h", "i", "o">>,
    <<"o", "k", "l", "a", "h", "o", "m", "a">>, <<"o", "r", "e", "g", "o", "n">>,
    <<"p", "e", "n", "n", "s", "y", "l", "v", "a", "n", "i", "a">>,
    <<"r", "h", "o", "d", "e", " ", "i", "s", "l", "a", "n", "d">>,
    <<"s", "o", "u", "t", "h", " ", "c", "a", "r", "o", "l", "i", "n", "a">>,
    <<"s", "o", "u", "t", "h", " ", "d", "a", "k", "o", "t", "a">>,
    <<"t", "e", "n", "n", "e", "s", "s", "e", "e">>, <<"t", "e", "x", "a", "s">>,
    <<"u", "t", "a", "h">>, <<"v", "e", "r", "m", "o", "n", "t">>,
    <<"v", "i", "r", "g", "i", "n", "i", "a">>,
    <<"w", "a", "s", "h", "i", "n", "g", "t", "o", "n">>,
    <<"w", "e", "s", "t", " ", "v", "i", "r", "g", "i", "n", "i", "a">>,
    <<"w", "i", "s", "c", "o", "n", "s", "i", "n">>, <<"w", "y", "o", "m", "i", "n", "g">>,
    <<"u", "s", "a">>, <<"u", ".", "s", ".", "a">>>>
COMMON_TITLES ==
    <<
    <<"c", "e", "o">>, <<"c", "t", "o">>, <<"c", "f", "o">>, <<"c", "o", "o">>, <<"c", "i", "o">>,
    <<"c", "m", "o">>, <<"p", "r", "e", "s", "i", "d", "e", "n", "t">>,
    <<"v", "i", "c", "e", " ", "p", "r", "e", "s", "i", "d", "e", "n", "t">>, <<"v", "p">>,
    <<"d", "i", "r", "e", "c", "t", "o", "r">>, <<"m", "a", "n", "a", "g", "e", "r">>,
    <<"s", "e", "n", "i", "o", "r">>, <<"j", "u", "n", "i", "o", "r">>,
    <<"e", "n", "g", "i", "n", "e", "e", "r">>, <<"d", "e", "v", "e", "l", "o", "p", "e", "r">>,
    <<"d", "e", "s", "i", "g", "n", "e", "r">>, <<"a", "n", "a", "l", "y", "s", "t">>,
    <<"c", "o", "n", "s", "u", "l", "t", "a", "n", "t">>,
    <<"s", "p", "e", "c", "i", "a", "l", "i", "s", "t">>,
    <<"c", "o", "o", "r", "d", "i", "n", "a", "t", "o", "r">>,
    <<"e", "x", "e", "c", "u", "t", "i", "v", "e">>, <<"o", "f", "f", "i", "c", "e", "r">>,
    <<"l", "e", "a", "d">>, <<"h", "e", "a", "d">>, <<"f", "o", "u", "n", "d", "e", "r">>,
    <<"c", "o", "-", "f", "o", "u", "n", "d", "e", "r">>, <<"p", "a", "r", "t", "n", "e", "r">>,
    <<"o", "w", "n", "e", "r">>, <<"s", "a", "l", "e", "s">>,
    <<"m", "a", "r", "k", "e", "t", "i", "n", "g">>, <<"h", "r">>,
    <<"h", "u", "m", "a", "n", " ", "r", "e", "s", "o", "u", "r", "c", "e", "s">>,
    <<"a", "c", "c", "o", "u", "n", "t", "a", "n", "t">>,
    <<"a", "t", "t", "o", "r", "n", "e", "y">>, <<"l", "a", "w", "y", "e", "r">>,
    <<"p", "h", "y", "s", "i", "c", "i", "a", "n">>,
    <<"p", "r", "o", "f", "e", "s", "s", "o", "r">>, <<"t", "e", "a", "c", "h", "e", "r">>,
    <<"r", "e", "s", "e", "a", "r", "c", "h", "e", "r">>, <<"a", "g", "e", "n", "t">>,
    <<"b", "r", "o", "k", "e", "r">>, <<"r", "e", "a", "l", "t", "o", "r">>,
    <<"r", "e", "a", "l", " ", "e", "s", "t", "a", "t", "e">>,
    <<"a", "s", "s", "i", "s", "t", "a", "n", "t">>,
    <<"a", "s", "s", "o", "c", "i", "a", "t", "e">>, <<"a", "d", "v", "i", "s", "o", "r">>,
    <<"r", "e", "p", "r", "e", "s", "e", "n", "t", "a", "t", "i", "v", "e">>>>
COMPANY_INDICATORS ==
    <<
    <<"i", "n", "c">>, <<"i", "n", "c", ".">>, <<"l", "l", "c">>, <<"l", "l", "p">>,
    <<"l", "t", "d">>, <<"l", "t", "d", ".">>, <<"c", "o", "r", "p">>, <<"c", "o", "r", "p", ".">>,
    <<"c", "o", "r", "p", "o", "r", "a", "t", "i", "o", "n">>,
    <<"c", "o", "m", "p", "a", "n", "y">>, <<"c", "o", ".">>, <<"g", "r", "o", "u", "p">>,
    <<"p", "a", "r", "t", "n", "e", "r", "s">>, <<"s", "o", "l", "u", "t", "i", "o", "n", "s">>,
    <<"s", "e", "r", "v", "i", "c", "e", "s">>,
    <<"t", "e", "c", "h", "n", "o", "l", "o", "g", "i", "e", "s">>, <<"t", "e", "c", "h">>,
    <<"s", "y", "s", "t", "e", "m", "s">>, <<"c", "o", "n", "s", "u", "l", "t", "i", "n", "g">>,
    <<"i", "n", "d", "u", "s", "t", "r", "i", "e", "s">>,
    <<"e", "n", "t", "e", "r", "p", "r", "i", "s", "e", "s">>,
    <<"a", "s", "s", "o", "c", "i", "a", "t", "e", "s">>>>
\* _extract_name: common first names to help identify real names
common_first_names ==
    {
    <<"a", "a", "r", "o", "n">>, <<"a", "d", "a", "m">>, <<"a", "d", "a", "m", "s">>,
    <<"a", "h", "m", "e", "d">>, <<"a", "l", "e", "x", "a", "n", "d", "e", "r">>, <<"a", "l", "i">>,
    <<"a", "l", "l", "e", "n">>, <<"a", "m", "a", "n", "d", "a">>, <<"a", "m", "y">>,
    <<"a", "n", "d", "e", "r", "s", "o", "n">>, <<"a", "n", "d", "r", "e", "w">>,
    <<"a", "n", "g", "e", "l", "a">>, <<"a", "n", "n", "a">>, <<"a", "n", "t", "h", "o", "n", "y">>,
    <<"a", "s", "h", "l", "e", "y">>, <<"b", "a", "k", "e", "r">>,
    <<"b", "a", "r", "b", "a", "r", "a">>, <<"b", "e", "n", "j", "a", "m", "i", "n">>,
    <<"b", "e", "t", "t", "y">>, <<"b", "r", "a", "n", "d", "o", "n">>,
    <<"b", "r", "e", "n", "d", "a">>, <<"b", "r", "i", "a", "n">>, <<"b", "r", "o", "w", "n">>,
    <<"c", "a", "m", "p", "b", "e", "l", "l">>, <<"c", "a", "r", "o", "l">>,
    <<"c", "a", "r", "t", "e", "r">>, <<"c", "h", "a", "r", "l", "e", "s">>,
    <<"c", "h", "r", "i", "s", "t", "i", "n", "e">>,
    <<"c", "h", "r", "i", "s", "t", "o", "p", "h", "e", "r">>, <<"c", "l", "a", "r", "k">>,
    <<"c", "y", "n", "t", "h", "i", "a">>, <<"d", "a", "n", "i", "e", "l">>,
    <<"d", "a", "v", "i", "d">>, <<"d", "a", "v", "i", "s">>, <<"d", "e", "b", "o", "r", "a", "h">>,
    <<"d", "e", "b", "r", "a">>, <<"d", "e", "n", "n", "i", "s">>, <<"d", "o", "n", "a", "l", "d">>,
    <<"d", "o", "n", "n", "a">>, <<"d", "o", "r", "o", "t", "h", "y">>,
    <<"e", "d", "w", "a", "r", "d">>, <<"e", "l", "i", "z", "a", "b", "e", "t", "h">>,
    <<"e", "m", "i", "l", "y">>, <<"e", "m", "m", "a">>, <<"e", "r", "i", "c">>,
    <<"f", "l", "o", "r", "e", "s">>, <<"f", "r", "a", "n", "k">>, <<"g", "a", "r", "y">>,
    <<"g", "e", "o", "r", "g", "e">>, <<"g", "r", "a", "c", "e">>, <<"g", "r", "e", "e", "n">>,
    <<"g", "r", "e", "g", "o", "r", "y">>, <<"h", "a", "l", "l">>, <<"h", "a", "n", "n", "a", "h">>,
    <<"h", "a", "r", "r", "i", "s">>, <<"h", "a", "s", "s", "a", "n">>, <<"h", "e", "l", "e", "n">>,
    <<"h", "i", "l", "l">>, <<"h", "u", "s", "s", "a", "i", "n">>, <<"j", "a", "c", "k">>,
    <<"j", "a", "c", "k", "s", "o", "n">>, <<"j", "a", "c", "o", "b">>, <<"j", "a", "m", "e", "s">>,
    <<"j", "a", "s", "o", "n">>, <<"j", "e", "f", "f", "r", "e", "y">>,
    <<"j", "e", "n", "n", "i", "f", "e", "r">>, <<"j", "e", "r", "r", "y">>,
    <<"j", "e", "s", "s", "i", "c", "a">>, <<"j", "o", "h", "n">>,
    <<"j", "o", "h", "n", "s", "o", "n">>, <<"j", "o", "n", "a", "t", "h", "a", "n">>,
    <<"j", "o", "n", "e", "s">>, <<"j", "o", "s", "e">>, <<"j", "o", "s", "e", "p", "h">>,
    <<"j", "o", "s", "h", "u", "a">>, <<"j", "u", "l", "i", "a">>, <<"j", "u", "s", "t", "i", "n">>,
    <<"k", "a", "r", "e", "n">>, <<"k", "a", "t", "h", "e", "r", "i", "n", "e">>,
    <<"k", "a", "t", "h", "l", "e", "e", "n">>, <<"k", "e", "n", "n", "e", "t", "h">>,
    <<"k", "e", "v", "i", "n">>, <<"k", "h", "a", "n">>, <<"k", "i", "m", "b", "e", "r", "l", "y">>,
    <<"k", "i", "n", "g">>, <<"k", "u", "m", "a", "r">>, <<"l", "a", "r", "r", "y">>,
    <<"l", "a", "u", "r", "a">>, <<"l", "e", "e">>, <<"l", "i", "n", "d", "a">>,
    <<"l", "i", "s", "a">>, <<"m", "a", "r", "g", "a", "r", "e", "t">>, <<"m", "a", "r", "k">>,
    <<"m", "a", "r", "t", "i", "n">>, <<"m", "a", "r", "y">>, <<"m", "a", "t", "t", "h", "e", "w">>,
    <<"m", "e", "l", "i", "s", "s", "a">>, <<"m", "i", "c", "h", "a", "e", "l">>,
    <<"m", "i", "c", "h", "e", "l", "l", "e">>, <<"m", "i", "l", "l", "e", "r">>,
    <<"m", "i", "t", "c", "h", "e", "l", "l">>, <<"m", "o", "h", "a", "m", "m", "a", "d">>,
    <<"m", "o", "o", "r", "e">>, <<"n", "a", "n", "c", "y">>, <<"n", "a", "t", "a", "l", "i", "e">>,
    <<"n", "a", "t", "h", "a", "n">>, <<"n", "e", "l", "s", "o", "n">>,
    <<"n", "g", "u", "y", "e", "n">>, <<"n", "i", "c", "h", "o", "l", "a", "s">>,
    <<"n", "i", "c", "o", "l", "e">>, <<"o", "l", "i", "v", "i", "a">>,
    <<"p", "a", "m", "e", "l", "a">>, <<"p", "a", "t", "r", "i", "c", "i", "a">>,
    <<"p", "a", "t", "r", "i", "c", "k">>, <<"p", "a", "u", "l">>, <<"r", "a", "c", "h", "e", "l">>,
    <<"r", "a", "y", "m", "o", "n", "d">>, <<"r", "e", "b", "e", "c", "c", "a">>,
    <<"r", "i", "c", "h", "a", "r", "d">>, <<"r", "i", "v", "e", "r", "a">>,
    <<"r", "i", "z", "v", "i">>, <<"r", "o", "b", "e", "r", "t">>,
    <<"r", "o", "b", "e", "r", "t", "s">>, <<"r", "o", "b", "i", "n", "s", "o", "n">>,
    <<"r", "o", "n", "a", "l", "d">>, <<"r", "y", "a", "n">>,
    <<"s", "a", "m", "a", "n", "t", "h", "a">>, <<"s", "a", "m", "u", "e", "l">>,
    <<"s", "a", "n", "c", "h", "e", "z">>, <<"s", "a", "n", "d", "r", "a">>,
    <<"s", "a", "r", "a", "h">>, <<"s", "c", "o", "t", "t">>, <<"s", "h", "a", "r", "o", "n">>,
    <<"s", "h", "i", "r", "l", "e", "y">>, <<"s", "m", "i", "t", "h">>,
    <<"s", "o", "p", "h", "i", "a">>, <<"s", "t", "e", "p", "h", "a", "n", "i", "e">>,
    <<"s", "t", "e", "p", "h", "e", "n">>, <<"s", "t", "e", "v", "e", "n">>,
    <<"s", "t", "e", "w", "a", "r", "t">>, <<"s", "u", "s", "a", "n">>, <<"s", "y", "e", "d">>,
    <<"t", "a", "y", "l", "o", "r">>, <<"t", "h", "o", "m", "a", "s">>,
    <<"t", "h", "o", "m", "p", "s", "o", "n">>, <<"t", "i", "m", "o", "t", "h", "y">>,
    <<"t", "o", "r", "r", "e", "s">>, <<"t", "y", "l", "e", "r">>,
    <<"v", "i", "c", "t", "o", "r", "i", "a">>, <<"w", "a", "l", "k", "e", "r">>,
    <<"w", "h", "i", "t", "e">>, <<"w", "i", "l", "l", "i", "a", "m">>,
    <<"w", "i", "l", "l", "i", "a", "m", "s">>, <<"w", "i", "l", "s", "o", "n">>,
    <<"w", "r", "i", "g", "h", "t">>, <<"y", "o", "u", "n", "g">>}
\* _extract_name: words that should not be in names
non_name_words ==
    {
    <<"a", "d", "d", "r", "e", "s", "s">>, <<"a", "g", "e", "n", "t">>,
    <<"a", "v", "e", "n", "u", "e">>, <<"b", "u", "i", "l", "d", "i", "n", "g">>,
    <<"c", "a", "l", "i", "f", "o", "r", "n", "i", "a">>, <<"c", "e", "l", "l">>,
    <<"c", "i", "t", "y">>, <<"c", "o", "m">>, <<"c", "o", "n", "t", "a", "c", "t">>,
    <<"e", "m", "a", "i", "l">>, <<"e", "s", "t", "a", "t", "e">>, <<"f", "a", "x">>,
    <<"f", "l", "o", "o", "r">>, <<"f", "l", "o", "r", "i", "d", "a">>,
    <<"g", "a", "l", "a", "x", "y">>, <<"g", "o", "e", "s">>, <<"h", "a", "l", "l">>,
    <<"h", "e", "r", "e">>, <<"i", "n", "f", "o">>, <<"m", "a", "i", "n">>,
    <<"m", "o", "b", "i", "l", "e">>, <<"n", "a", "m", "e">>, <<"n", "e", "t">>, <<"n", "e", "w">>,
    <<"o", "r", "g">>, <<"p", "h", "o", "n", "e">>, <<"r", "e", "a", "l">>,
    <<"r", "e", "a", "l", "e", "s", "t", "a", "t", "e">>, <<"r", "o", "a", "d">>,
    <<"r", "o", "y", "a", "l">>, <<"s", "i", "t", "e">>, <<"s", "t", "r", "e", "e", "t">>,
    <<"s", "u", "i", "t", "e">>, <<"t", "a", "g", "l", "i", "n", "e">>, <<"t", "e", "x", "a", "s">>,
    <<"t", "l", "o", "r", "i", "d">>, <<"u", "s", "a">>, <<"w", "e", "b">>,
    <<"w", "e", "b", "s", "i", "t", "e">>, <<"w", "w", "w">>, <<"y", "o", "r", "k">>,
    <<"y", "o", "u", "r">>, <<"y", "o", "u", "r", "t", "a", "g", "i", "i", "n", "e">>,
    <<"y", "o", "u", "r", "t", "a", "g", "l", "i", "n", "e">>,
    <<"y", "o", "u", "r", "t", "a", "g", "w", "n", "e">>}
\* _extract_title: compound titles without spaces, longest first
compound_titles ==
    <<
    <<<<"r", "e", "a", "l", "e", "s", "t", "a", "t", "e", "a", "g", "e", "n", "t">>, <<"R", "e", "a", "l", " ", "E", "s", "t", "a", "t", "e", " ", "A", "g", "e", "n", "t">>>>,
    <<<<"s", "o", "f", "t", "w", "a", "r", "e", "e", "n", "g", "i", "n", "e", "e", "r">>, <<"S", "o", "f", "t", "w", "a", "r", "e", " ", "E", "n", "g", "i", "n", "e", "e", "r">>>>,
    <<<<"s", "o", "f", "t", "w", "a", "r", "e", "d", "e", "v", "e", "l", "o", "p", "e", "r">>, <<"S", "o", "f", "t", "w", "a", "r", "e", " ", "D", "e", "v", "e", "l", "o", "p", "e", "r">>>>,
    <<<<"b", "u", "s", "i", "n", "e", "s", "s", "d", "e", "v", "e", "l", "o", "p", "m", "e", "n", "t">>, <<"B", "u", "s", "i", "n", "e", "s", "s", " ", "D", "e", "v", "e", "l", "o", "p", "m", "e", "n", "t">>>>,
    <<<<"a", "c", "c", "o", "u", "n", "t", "e", "x", "e", "c", "u", "t", "i", "v", "e">>, <<"A", "c", "c", "o", "u", "n", "t", " ", "E", "x", "e", "c", "u", "t", "i", "v", "e">>>>,
    <<<<"m", "a", "r", "k", "e", "t", "i", "n", "g", "m", "a", "n", "a", "g", "e", "r">>, <<"M", "a", "r", "k", "e", "t", "i", "n", "g", " ", "M", "a", "n", "a", "g", "e", "r">>>>,
    <<<<"f", "i", "n", "a", "n", "c", "i", "a", "l", "a", "n", "a", "l", "y", "s", "t">>, <<"F", "i", "n", "a", "n", "c", "i", "a", "l", " ", "A", "n", "a", "l", "y", "s", "t">>>>,
    <<<<"c", "u", "s", "t", "o", "m", "e", "r", "s", "e", "r", "v", "i", "c", "e">>, <<"C", "u", "s", "t", "o", "m", "e", "r", " ", "S", "e", "r", "v", "i", "c", "e">>>>,
    <<<<"p", "r", "o", "d", "u", "c", "t", "m", "a", "n", "a", "g", "e", "r">>, <<"P", "r", "o", "d", "u", "c", "t", " ", "M", "a", "n", "a", "g", "e", "r">>>>,
    <<<<"p", "r", "o", "j", "e", "c", "t", "m", "a", "n", "a", "g", "e", "r">>, <<"P", "r", "o", "j", "e", "c", "t", " ", "M", "a", "n", "a", "g", "e", "r">>>>,
    <<<<"s", "e", "n", "i", "o", "r", "e", "n", "g", "i", "n", "e", "e", "r">>, <<"S", "e", "n", "i", "o", "r", " ", "E", "n", "g", "i", "n", "e", "e", "r">>>>,
    <<<<"d", "a", "t", "a", "s", "c", "i", "e", "n", "t", "i", "s", "t">>, <<"D", "a", "t", "a", " ", "S", "c", "i", "e", "n", "t", "i", "s", "t">>>>,
    <<<<"s", "a", "l", "e", "s", "m", "a", "n", "a", "g", "e", "r">>, <<"S", "a", "l", "e", "s", " ", "M", "a", "n", "a", "g", "e", "r">>>>,
    <<<<"d", "a", "t", "a", "a", "n", "a", "l", "y", "s", "t">>, <<"D", "a", "t", "a", " ", "A", "n", "a", "l", "y", "s", "t">>>>,
    <<<<"s", "a", "l", "e", "s", "r", "e", "p">>, <<"S", "a", "l", "e", "s", " ", "R", "e", "p", "r", "e", "s", "e", "n", "t", "a", "t", "i", "v", "e">>>>,
    <<<<"r", "e", "a", "l", "e", "s", "t", "a", "t", "e">>, <<"R", "e", "a", "l", " ", "E", "s", "t", "a", "t", "e">>>>>>
\* _extract_company: industry keywords that appear alone
company_keywords ==
    <<
    <<"r", "e", "a", "l", "e", "s", "t", "a", "t", "e">>,
    <<"r", "e", "a", "l", " ", "e", "s", "t", "a", "t", "e">>,
    <<"c", "o", "n", "s", "u", "l", "t", "i", "n", "g">>,
    <<"s", "o", "l", "u", "t", "i", "o", "n", "s">>,
    <<"t", "e", "c", "h", "n", "o", "l", "o", "g", "i", "e", "s">>,
    <<"s", "y", "s", "t", "e", "m", "s">>, <<"s", "e", "r", "v", "i", "c", "e", "s">>,
    <<"a", "g", "e", "n", "c", "y">>, <<"g", "r", "o", "u", "p">>>>
\* _extract_address: OCR variations of US states (all the variations of the dict)
state_variations ==
    <<
    <<"f", "l", "o", "r", "i", "d", "a">>, <<"f", "l", "o", "r", "i", "d">>,
    <<"t", "l", "o", "r", "i", "d">>, <<"f", "i", "o", "r", "i", "d", "a">>,
    <<"c", "a", "l", "i", "f", "o", "r", "n", "i", "a">>,
    <<"c", "a", "l", "i", "f", "o", "m", "i", "a">>,
    <<"c", "a", "i", "f", "o", "r", "n", "i", "a">>, <<"t", "e", "x", "a", "s">>,
    <<"t", "e", "k", "a", "s">>, <<"t", "e", "z", "a", "s">>,
    <<"n", "e", "w", " ", "y", "o", "r", "k">>, <<"n", "e", "w", "y", "o", "r", "k">>,
    <<"n", "e", "w", " ", "y", "o", "l", "k">>>>

\* CardDataParser._clean_ocr_text
OcrNoise == {";", ":", ",", ".", "-", "_"}
RECURSIVE RStripClass(_, _)
RStripClass(s, class) ==
    IF s # <<>> /\ s[Len(s)] \in class THEN RStripClass(SubSeq(s, 1, Len(s) - 1), class) ELSE s
RECURSIVE LStripClass(_, _)
LStripClass(s, class) ==
    IF s # <<>> /\ Head(s) \in class THEN LStripClass(Tail(s), class) ELSE s
\* ([a-z])([A-Z])
LowerUpperMatch(s, i) == RegexMatch(<<Cls(Lower, 1, 1), Cls(Upper, 1, 1)>>, s, i)
\* ([A-Z]{2,})([A-Z][a-z])
CapsWordMatch(s, i) ==
    RegexMatch(<<Cls(Upper, 2, -1), Cls(Upper, 1, 1), Cls(Lower, 1, 1)>>, s, i)
\* r'\1 \2' where the second group is the last two characters of the match
SpaceBeforeLastTwo(s, i, e) == SubSeq(s, i, e - 3) \o <<" ">> \o SubSeq(s, e - 2, e - 1)
\* r'\1 \2' where the second group is the last character of the match
SpaceBeforeLast(s, i, e) == SubSeq(s, i, e - 2) \o <<" ">> \o SubSeq(s, e - 1, e - 1)
CleanOcrText(text) ==
    Strip(ReSub(ReSub(LStripClass(RStripClass(text, OcrNoise), OcrNoise),
                      LowerUpperMatch, SpaceBeforeLast),
                CapsWordMatch, SpaceBeforeLastTwo))

\* CardDataParser._clean_lines
CleanLines(text) ==
    LET kept(cleaned) == IF Len(cleaned) > 1 THEN <<cleaned>> ELSE <<>>
        line(raw) == kept(CleanOcrText(Strip(raw)))
    IN ConcatMap(SplitOn(text, "\n"), line)

\* all_caps_name_pattern  \b([A-Z]{2,}(?:\s+[A-Z]{2,}){1,3})\b  with the group
\* repeated n times
AllCapsWords(n) ==
    <<Bnd, Cls(Upper, 2, -1)>>
    \o [k \in 1..(2 * n) |-> IF k % 2 = 1 THEN CPlus(Space) ELSE Cls(Upper, 2, -1)]
    \o <<Bnd>>
AllCapsNameMatch(s, i) ==
    LET longest(e) == IF e[3] # 0 THEN e[3] ELSE IF e[2] # 0 THEN e[2] ELSE e[1]
    IN longest([n \in 1..3 |-> RegexMatch(AllCapsWords(n), s, i)])

IsAlpha(w) == w # <<>> /\ \A k \in DOMAIN w : w[k] \in Letter
CountWhere(words, P(_)) == Cardinality({k \in DOMAIN words : P(words[k])})

\* first loop of _extract_name: the candidate (name, score) of one ALL CAPS
\* match, or none
AllCapsCandidate(match) ==
    LET IsCommon(w) == StrLower(w) \in common_first_names
        Invalid(w) == \/ StrLower(w) \in non_name_words
                      \/ InSeq(StrLower(w), COMPANY_INDICATORS)
                      \/ ~IsAlpha(w) \/ Len(w) < 2
        candidate(potential_name_title, words) ==
          LET name_score == 5 * CountWhere(words, IsCommon)
              score == 10 + name_score + (IF Len(words) = 2 THEN 2 ELSE 0)
          IN \* the loop over the words breaks at the first invalid word
             IF /\ 2 <= Len(words) /\ Len(words) <= 3
                /\ \A j \in DOMAIN words : ~Invalid(words[j])
             THEN <<<<potential_name_title, score>>>>
             ELSE <<>>
        titled(potential_name_title) ==
          candidate(potential_name_title, SplitWS(potential_name_title))
    IN titled(Title(match))
\* the candidates of the ALL CAPS names in full_text
AllCapsCandidates(full_text) ==
    ConcatMap(FindAll(full_text, AllCapsNameMatch), AllCapsCandidate)

NameAddressWords ==
    <<<<"s", "t", "r", "e", "e", "t">>, <<"s", "t", ".">>, <<"a", "v", "e">>, <<"a", "v", "e", "n", "u", "e">>, <<"r", "o", "a", "d">>, <<"r", "d", ".">>, <<"b", "l", "v", "d">>, <<"s", "u", "i", "t", "e">>, <<"f", "l", "o", "o", "r">>>>
NameLines == 8

\* second loop of _extract_name: the candidate of line i (from 0), or none
LineCandidate(line, i) ==
    LET NameLike(w) == Head(w) \in Upper \/ IsUpper(w)
        lowered(line_lower) ==
          \/ ContainsAny(line_lower, COMPANY_INDICATORS)
          \/ ContainsAny(line_lower, NameAddressWords)
        skip == \/ ReSearch(line, ParserEmailMatch)
                \/ CountIn(line, {"@"}) > 0
                \/ CountIn(line, Digit) >= 7
                \/ lowered(StrLower(line))
        candidate(clean_line, words) ==
          LET score == (6 - i) + (IF Len(words) = 2 THEN 2 ELSE 0)
          IN IF /\ 2 <= Len(words) /\ Len(words) <= 4
                /\ 10 * CountWhere(words, IsAlpha) >= 8 * Len(words)
                /\ \A j \in DOMAIN words : NameLike(words[j])
             THEN <<<<IF IsUpper(clean_line) THEN Title(clean_line) ELSE clean_line,
                      score>>>>
             ELSE <<>>
        cleaned(clean_line) == candidate(clean_line, SplitWS(clean_line))
    IN IF skip THEN <<>> ELSE cleaned(Strip(Keep(line, Letter \cup Space)))
\* the candidates of the first lines
LineCandidates(lines) ==
    LET f[k \in 1..(Min(Len(lines), NameLines) + 1)] ==
          IF k > Min(Len(lines), NameLines) THEN <<>>
          ELSE LineCandidate(lines[k], k - 1) \o f[k + 1]
    IN f[1]

\* candidates.sort(key=score, reverse=True)[0]: the first candidate among
\* those of the highest score (the sort is stable)
BestCandidate(candidates) ==
    candidates[CHOOSE k \in DOMAIN candidates :
                 /\ \A j \in DOMAIN candidates : candidates[j][2] <= candidates[k][2]
                 /\ \A j \in 1..(k - 1) : candidates[j][2] < candidates[k][2]]

\* CardDataParser._extract_name; None is <<>>
ExtractName(lines, full_text) ==
    LET best(candidates) ==
          IF candidates = <<>> THEN <<>> ELSE BestCandidate(candidates)[1]
    IN best(AllCapsCandidates(full_text) \o LineCandidates(lines))

\* CardDataParser._split_name
SplitName(full_name) ==
    LET parts == SplitWS(Strip(full_name))
    IN IF Len(parts) = 0 THEN [first_name |-> <<>>, last_name |-> <<>>]
       ELSE IF Len(parts) = 1 THEN [first_name |-> parts[1], last_name |-> <<>>]
       ELSE [first_name |-> parts[1], last_name |-> Join(Tail(parts), <<" ">>)]

\* CardDataParser.PATTERNS["linkedin"]  (IGNORECASE)
\* (?:linkedin\.com/in/|linkedin:\s*)([a-zA-Z0-9_-]+)
LinkedinUser == Alnum \cup {"_", "-"}
LinkedinUrl == <<Lit(<<"l", "i", "n", "k", "e", "d", "i", "n", ".", "c", "o", "m", "/", "i", "n", "/">>, TRUE), CPlus(LinkedinUser)>>
LinkedinLabel == <<Lit(<<"l", "i", "n", "k", "e", "d", "i", "n", ":">>, TRUE), CStar(Space), CPlus(LinkedinUser)>>
LinkedinMatch(s, i) ==
    IF RegexMatch(LinkedinUrl, s, i) # 0 THEN RegexMatch(LinkedinUrl, s, i)
    ELSE RegexMatch(LinkedinLabel, s, i)
\* the characters of class that end just before e
RunBefore(s, e, class) ==
    LET starts == {b \in 1..e : \A k \in b..(e - 1) : s[k] \in class}
    IN SubSeq(s, CHOOSE b \in starts : \A c \in starts : b <= c, e - 1)

\* CardDataParser._extract_linkedin; None is <<>>
ExtractLinkedin(text) ==
    LET i == SearchAt(text, LinkedinMatch)
        username == RunBefore(text, LinkedinMatch(text, i), LinkedinUser)
    IN IF i = 0 THEN <<>> ELSE <<"h", "t", "t", "p", "s", ":", "/", "/", "l", "i", "n", "k", "e", "d", "i", "n", ".", "c", "o", "m", "/", "i", "n", "/">> \o username

\* CardDataParser.PATTERNS["twitter"]  (IGNORECASE)
\* (?:@|twitter\.com/)([a-zA-Z0-9_]+)
TwitterUser == Alnum \cup {"_"}
TwitterMatch(s, i) ==
    IF RegexMatch(<<Lit(<<"@">>, FALSE), CPlus(TwitterUser)>>, s, i) # 0
    THEN RegexMatch(<<Lit(<<"@">>, FALSE), CPlus(TwitterUser)>>, s, i)
    ELSE RegexMatch(<<Lit(<<"t", "w", "i", "t", "t", "e", "r", ".", "c", "o", "m", "/">>, TRUE), CPlus(TwitterUser)>>, s, i)

\* CardDataParser._extract_twitter; None is <<>>
ExtractTwitter(text) ==
    LET i == SearchAt(text, TwitterMatch)
    IN IF i = 0 THEN <<>>
       ELSE <<"@">> \o RunBefore(text, TwitterMatch(text, i), TwitterUser)

\* CardDataParser._extract_title; None is <<>>
ExtractTitle(lines) ==
    LET all_text_no_space == Join([k \in DOMAIN lines |-> Drop(StrLower(lines[k]), {" "})], <<>>)
        compounds == {k \in DOMAIN compound_titles :
                        Contains(all_text_no_space, compound_titles[k][1])}
        HasTitle(line) == \/ ContainsAny(StrLower(line), COMMON_TITLES)
                          \/ ContainsAny(StrLower(CleanOcrText(line)), COMMON_TITLES)
        titled == {k \in DOMAIN lines : HasTitle(lines[k])}
        cleaned_line == CleanOcrText(lines[CHOOSE k \in titled : \A j \in titled : k <= j])
    IN IF compounds # {}
       THEN compound_titles[CHOOSE k \in compounds : \A j \in compounds : k <= j][2]
       ELSE IF titled = {} THEN <<>>
       ELSE IF IsUpper(cleaned_line) THEN Title(cleaned_line) ELSE cleaned_line

FreeMailNames == {<<"g", "m", "a", "i", "l">>, <<"y", "a", "h", "o", "o">>, <<"h", "o", "t", "m", "a", "i", "l">>, <<"o", "u", "t", "l", "o", "o", "k">>, <<"a", "o", "l">>, <<"w", "e", "b", "s", "i", "t", "e", "n", "a", "m", "e">>}
HeaderLines == 4
HeaderTitleWords == <<<<"a", "g", "e", "n", "t">>, <<"m", "a", "n", "a", "g", "e", "r">>, <<"d", "i", "r", "e", "c", "t", "o", "r">>, <<"c", "l", "a", "r", "k">>, <<"s", "t", "e", "w", "a", "r", "t">>>>

\* what the header loop of _extract_company returns for one line; <<>> when
\* the loop goes on to the next line
CompanyFromHeader(line) ==
    LET cleaned == CleanOcrText(line)
        line_no_space == Drop(StrLower(cleaned), {" "})
        skip == \/ CountIn(line, {"@"}) > 0 \/ ReSearch(line, PhoneMatch)
                \/ Contains(StrLower(line), <<"t", "a", "g", "l", "i", "n", "e">>)
                \/ Contains(StrLower(line), <<"g", "o", "e", "s", " ", "h", "e", "r", "e">>)
                \/ Contains(StrLower(line), <<"w", "w", "w">>) \/ Contains(StrLower(line), <<".", "c", "o", "m">>)
        hits == {k \in DOMAIN company_keywords : Contains(line_no_space, company_keywords[k])}
        keyword == company_keywords[CHOOSE k \in hits : \A j \in hits : k <= j]
    IN IF skip THEN <<>>
       ELSE IF hits # {}
       THEN IF keyword = <<"r", "e", "a", "l", "e", "s", "t", "a", "t", "e">> THEN <<"R", "e", "a", "l", " ", "E", "s", "t", "a", "t", "e">> ELSE Title(cleaned)
       ELSE IF /\ IsUpper(cleaned)
               /\ 1 <= Len(SplitWS(cleaned)) /\ Len(SplitWS(cleaned)) <= 4
               /\ ~ContainsAny(StrLower(cleaned), HeaderTitleWords)
       THEN Title(cleaned)
       ELSE <<>>

\* CardDataParser._extract_company; None is <<>>
ExtractCompany(lines, email) ==
    LET domain_name == SplitOn(EmailDomain(email), ".")[1]
        company_hint == IF CountIn(email, {"@"}) > 0 /\ StrLower(domain_name) \notin FreeMailNames
                        THEN Title(domain_name) ELSE <<>>
        indicated == {k \in DOMAIN lines : ContainsAny(StrLower(lines[k]), COMPANY_INDICATORS)}
        headers == {k \in 1..Min(Len(lines), HeaderLines) : CompanyFromHeader(lines[k]) # <<>>}
    IN IF indicated # {} THEN lines[CHOOSE k \in indicated : \A j \in indicated : k <= j]
       ELSE IF headers # {}
       THEN CompanyFromHeader(lines[CHOOSE k \in headers : \A j \in headers : k <= j])
       ELSE company_hint

\* the address_patterns of _extract_address  (IGNORECASE)
StreetNumber == <<CPlus(Digit), CPlus(Space), Cls(Letter, 1, 1)>>
CityStateZip == <<CPlus(Letter), Cls({","}, 0, 1), CStar(Space), Cls(Letter, 2, 2),
                  CStar(Space), Cls(Digit, 5, 5)>>
AddressKeywords ==
    <<<<"s", "u", "i", "t", "e">>, <<"f", "l", "o", "o", "r">>, <<"b", "u", "i", "l", "d", "i", "n", "g">>, <<"b", "l", "d", "g">>, <<"a", "p", "t">>, <<"u", "n", "i", "t">>,
      <<"s", "t", "r", "e", "e", "t">>, <<"s", "t", ".">>, <<"a", "v", "e", "n", "u", "e">>, <<"a", "v", "e", ".">>, <<"r", "o", "a", "d">>, <<"r", "d", ".">>, <<"b", "o", "u", "l", "e", "v", "a", "r", "d">>, <<"b", "l", "v", "d">>,
      <<"d", "r", "i", "v", "e">>, <<"d", "r", ".">>, <<"l", "a", "n", "e">>, <<"l", "n", ".">>, <<"w", "a", "y">>, <<"p", "l", "a", "c", "e">>, <<"p", "l", ".">>,
      <<"h", "a", "l", "l">>, <<"m", "a", "i", "n">>, <<"c", "e", "n", "t", "e", "r">>, <<"p", "l", "a", "z", "a">>, <<"t", "o", "w", "e", "r">>>>
\* \b\d{4,5}\b
ZipCode == <<Bnd, Cls(Digit, 4, 5), Bnd>>

\* is_address of one line of _extract_address, after the skips
IsAddressLine(line) ==
    \/ ContainsAny(StrLower(line), state_variations)
    \/ Contains(StrLower(line), <<"u", "s", "a">>)
    \/ Found(line, ZipCode)
    \/ ContainsAny(StrLower(line), US_STATES)
    \/ Found(line, StreetNumber)
    \/ Found(line, CityStateZip)
    \/ ContainsAny(StrLower(line), AddressKeywords)

\* CardDataParser._extract_address; None is <<>>
ExtractAddress(lines) ==
    LET skip(line) == \/ ReSearch(line, ParserEmailMatch)
                      \/ Contains(StrLower(line), <<"l", "i", "n", "k", "e", "d", "i", "n">>)
                      \/ Contains(StrLower(line), <<"t", "w", "i", "t", "t", "e", "r">>)
                      \/ CountIn(line, {"@"}) > 0
                      \/ 2 * CountIn(line, Digit) > Max(Len(line), 1)
        f[k \in 1..(Len(lines) + 1)] ==
          IF k > Len(lines) THEN <<>>
          ELSE IF ~skip(lines[k]) /\ IsAddressLine(lines[k])
          THEN <<RStripClass(CleanOcrText(lines[k]), {";", ":", "-"})>> \o f[k + 1]
          ELSE f[k + 1]
    IN Join(f[1], <<",", " ">>)

-----------------------------------------------------------------------------
(* Inputs of process_image: what the collaborators can hand back *)

Images == {"card_0.jpg", "card_1.jpg"}

\* ContactData(...).to_dict() with the fields that are not given left at their
\* defaults
ContactData(given) ==
    [k \in {"name", "first_name", "last_name", "email", "phone", "company", "title",
            "website", "address", "linkedin", "twitter", "raw_text", "confidence_score"}
       |-> IF k \in DOMAIN given THEN given[k]
           ELSE IF k = "confidence_score" THEN 0 ELSE <<>>]

CardText == <<"A", "l", " ", "B", "o", "\n", "A", "c", "m", "e", " ", "I", "n", "c", "\n", "a", "l", "@", "a", "c", "m", "e", ".", "i", "o">>

CleanCard ==
    ContactData([name |-> <<"A", "l", " ", "B", "o">>, first_name |-> <<"A", "l">>, last_name |-> <<"B", "o">>,
                 title |-> <<"C", "E", "O">>, company |-> <<"A", "c", "m", "e", " ", "I", "n", "c">>, email |-> <<"a", "l", "@", "a", "c", "m", "e", ".", "i", "o">>,
                 phone |-> <<<<"+", "1", "4", "1", "5", "5", "5", "5", "0", "1", "0", "0">>>>, website |-> <<"h", "t", "t", "p", "s", ":", "/", "/", "w", "w", "w", ".", "a", "c", "m", "e", ".", "i", "o">>,
                 address |-> <<"1", " ", "M", "a", "i", "n", " ", "S", "t">>, linkedin |-> <<"l", "i", "n", "k", "e", "d", "i", "n", ".", "c", "o", "m", "/", "i", "n", "/", "a", "l", "b", "o">>,
                 twitter |-> <<"@", "a", "l", "b", "o">>, raw_text |-> CardText, confidence_score |-> 9000])
\* name, email and company but no phone: three key fields
ThreeFieldCard ==
    ContactData([name |-> <<"A", "l", " ", "B", "o">>, company |-> <<"C", "a", "p", "i", "t", "a", "l", " ", "B", "a", "n", "k">>,
                 email |-> <<"a", "l", "@", "g", "m", "a", "i", "l", ".", "c", "o", "m">>, raw_text |-> CardText,
                 confidence_score |-> 6000])
EmailOnlyCard ==
    ContactData([email |-> <<"a", "l", "@", "a", "c", "m", "e", ".", "i", "o">>, raw_text |-> CardText,
                 confidence_score |-> 2500])
\* a digit left in the name
DigitNameCard ==
    ContactData([name |-> <<"A", "1", " ", "B", "o">>, company |-> <<"A", "c", "m", "e", " ", "I", "n", "c">>, email |-> <<"a", "l", "@", "a", "c", "m", "e", ".", "i", "o">>,
                 phone |-> <<<<"4", "1", "5", "5", "5", "5", "0", "1", "0", "0">>>>, raw_text |-> CardText,
                 confidence_score |-> 7000])
\* a digit in the local part of the email, two phones
DigitEmailCard ==
    ContactData([name |-> <<"A", "l", " ", "B", "o">>, company |-> <<"3", "M">>, email |-> <<"a", "1", "@", "a", "c", "m", "e", ".", "i", "o">>,
                 phone |-> <<<<"4", "1", "5", "5", "5", "5", "0", "1", "0", "0">>, <<"4", "1", "5", "5", "5", "5", "0", "1", "0", "1">>>>, raw_text |-> CardText,
                 confidence_score |-> 7000])
\* fields the post-processor rewrites: a title inside the name, an email inside
\* the company, letters inside the phone
NoisyCard ==
    ContactData([name |-> <<"A", "l", " ", "B", "o", " ", "C", "E", "O">>, company |-> <<"A", "c", "m", "e", " ", "a", "l", "@", "a", "c", "m", "e", ".", "i", "o", " ", "I", "n", "c">>,
                 email |-> <<"a", "l", "@", "a", "c", "m", "e", ".", "i", "o">>, phone |-> <<<<"t", "e", "l", " ", "4", "1", "5", "-", "5", "5", "5", "-", "0", "1", "0", "0">>>>,
                 website |-> <<"a", "c", "m", "e">>, raw_text |-> CardText, confidence_score |-> 8000])
\* nothing the parser could place
BlankCard == ContactData([raw_text |-> CardText])
\* a ContactData with every field at its default, raw_text included
DefaultCard == ContactData([confidence_score |-> 0])

\* what parser.parse_from_image_text(raw_text) can return: a list of contacts,
\* or "raise"
ParseOutcomes ==
    {<<>>, <<CleanCard>>, <<ThreeFieldCard>>, <<EmailOnlyCard>>, <<DigitNameCard>>,
     <<DigitEmailCard>>, <<NoisyCard>>, <<BlankCard>>, <<DefaultCard>>,
     <<CleanCard, EmailOnlyCard>>}

\* str(e) of an exception a collaborator throws: a message, or nothing when the
\* exception was built without arguments
ExceptionMessages == {"OCR failed", ""}

\* what ocr.extract_text(image_path) can return (confidence in 1/10000), with
\* "raise" for a collaborator that throws
OcrResult(confidence) ==
    [success |-> TRUE, raw_text |-> CardText, confidence |-> confidence,
     method |-> "easyocr_enhanced"]
OcrFailure ==
    [success |-> FALSE, error |-> "No text extracted from image", raw_text |-> <<>>,
     confidence |-> 0, method |-> "easyocr_enhanced"]
OcrConfidences == {4000, 6999, 7000, 9000}
OcrOutcomes == {OcrResult(c) : c \in OcrConfidences} \cup {OcrFailure}

\* what the remote VLM call can yield: parsed data, a reported failure or an
\* exception
VlmFull ==
    [name |-> <<"A", "l", " ", "B", "o">>, title |-> <<"C", "E", "O">>, company |-> <<"A", "c", "m", "e", " ", "I", "n", "c">>,
     email |-> <<"a", "l", "@", "a", "c", "m", "e", ".", "i", "o">>, phone |-> <<<<"+", "1", " ", "4", "1", "5", " ", "5", "5", "5", " ", "0", "1", "0", "0">>>>,
     website |-> <<"a", "c", "m", "e", ".", "i", "o">>, address |-> <<"1", " ", "M", "a", "i", "n", " ", "S", "t", ",", " ", "R", "e", "n", "o", " ", "N", "V", " ", "8", "9", "5", "0", "1">>,
     linkedin |-> <<"l", "i", "n", "k", "e", "d", "i", "n", ".", "c", "o", "m", "/", "i", "n", "/", "a", "l", "b", "o">>, raw_text |-> CardText]
\* the VLM read less than the heuristic extraction did
VlmSparse == [name |-> <<"A", "l", "a", "n", " ", "B", "o">>, email |-> <<"a", "l", "a", "n", "@", "a", "c", "m", "e", ".", "i", "o">>, raw_text |-> <<"A", "l", "a", "n", " ", "B", "o">>]
VlmEmpty == [raw_text |-> <<>>]
VlmBlankName == [name |-> <<" ">>, email |-> <<"a", "l", "@", "a", "c", "m", "e", ".", "i", "o">>]
VlmOutcomes ==
    {[kind |-> "data", data |-> d] : d \in {VlmFull, VlmSparse, VlmEmpty, VlmBlankName}}
    \cup {[kind |-> "failed", error |-> "Failed to parse Gemini response"],
          [kind |-> "raise"]}

\* how the researcher's remote API behaves in one call; "raise" when
\* researcher.enrich throws
ResearcherOutcomes == {"off", "ok", "error", "raise"}

-----------------------------------------------------------------------------
(* CardResearchPipeline.process_image: src/src/pipeline.py, one action per
   numbered stage of the method *)

InBatch == bpc = "loop"

\* the collaborators' outcomes considered for one call; a call made by
\* process_batch draws from fewer
OcrChoices == IF InBatch THEN {OcrResult(9000), OcrFailure} ELSE OcrOutcomes
ParseChoices == IF InBatch THEN {<<>>, <<CleanCard>>} ELSE ParseOutcomes
VlmChoices ==
    IF InBatch THEN {[kind |-> "raise"], [kind |-> "data", data |-> VlmSparse]}
    ELSE VlmOutcomes
ResearcherChoices == IF InBatch THEN {"off"} ELSE ResearcherOutcomes
MessageChoices == IF InBatch THEN {"OCR failed"} ELSE ExceptionMessages

\* entry of process_image(p, enrich = e, force_gemini = f): the locals as the
\* method binds them before the first stage
Enter(p, e, f) ==
    /\ pc' = "force"
    /\ image_path' = p
    /\ enrich' = e
    /\ force_gemini' = f
    /\ ocr_method' = "easyocr"
    /\ final_contact' = <<>>
    /\ ocr_result' = <<>>
    /\ ocr_confidence' = 0
    /\ raw_text' = <<>>
    /\ parsed_contacts' = <<>>
    /\ cleaned_contact' = <<>>
    /\ gemini_result' = <<>>
    /\ company_enrichment' = <<>>
    /\ field_confidence' = <<>>
    /\ vlm_calls' = 0
    /\ ocr_calls' = 0
    /\ before_merge' = <<>>
    /\ result' = <<>>
    /\ log' = <<"info: Processing image">>

\* a caller invokes process_image
Start ==
    /\ pc \in {"idle", "done"}
    /\ bpc = "idle"
    /\ \E p \in Images, e \in BOOLEAN, f \in BOOLEAN : Enter(p, e, f)
    /\ UNCHANGED <<gemini_ocr, bvars, fvars>>

\* the outermost "except Exception as e" of process_image
PipelineError(msg) ==
    /\ result' = [success |-> FALSE, error |-> msg, image |-> image_path]
    /\ log' = Append(log, "error: Pipeline error")
    /\ pc' = "done"

\* "Option 1: Force Gemini"
ForceGemini ==
    /\ pc = "force"
    /\ IF force_gemini /\ gemini_ocr # "None"
       THEN \E outcome \in VlmChoices :
              LET contact == ProcessWithGemini(outcome) IN
              /\ final_contact' = contact
              /\ ocr_method' = IF contact # <<>> THEN "gemini" ELSE ocr_method
              /\ vlm_calls' = vlm_calls + 1
              /\ log' = log \o <<"info: Using Gemini (forced)">>
                            \o ProcessWithGeminiLog(outcome)
              /\ pc' = IF contact # <<>> THEN "enrich" ELSE "ocr"
       ELSE /\ pc' = "ocr"
            /\ UNCHANGED <<final_contact, ocr_method, vlm_calls, log>>
    /\ UNCHANGED <<gemini_ocr, args, ocr_result, ocr_confidence, raw_text,
                   parsed_contacts, cleaned_contact, gemini_result, company_enrichment,
                   field_confidence, ocr_calls, before_merge, result, bvars, fvars>>

\* "1. PRIMARY OCR: EasyOCR"
PrimaryOcr ==
    /\ pc = "ocr"
    /\ ocr_calls' = ocr_calls + 1
    /\ \/ \E o \in OcrChoices :
            /\ ocr_result' = o
            /\ raw_text' = o.raw_text
            /\ ocr_confidence' = o.confidence
            /\ pc' = "parse"
            /\ UNCHANGED <<result, log>>
       \/ \E msg \in MessageChoices :
            /\ PipelineError(msg)
            /\ UNCHANGED <<ocr_result, raw_text, ocr_confidence>>
    /\ UNCHANGED <<gemini_ocr, args, ocr_method, parsed_contacts, cleaned_contact,
                   gemini_result, final_contact, company_enrichment, field_confidence,
                   vlm_calls, before_merge, bvars, fvars>>

\* "2. PARSE"
Parse ==
    /\ pc = "parse"
    /\ IF ocr_result.success /\ raw_text # <<>>
       THEN \/ \E contacts \in ParseChoices :
                 /\ parsed_contacts' = contacts
                 /\ pc' = "postprocess"
                 /\ UNCHANGED <<result, log>>
            \/ \E msg \in MessageChoices :
                 /\ PipelineError(msg)
                 /\ UNCHANGED parsed_contacts
       ELSE /\ parsed_contacts' = <<>>
            /\ pc' = "postprocess"
            /\ UNCHANGED <<result, log>>
    /\ UNCHANGED <<gemini_ocr, args, ocr_method, ocr_result, ocr_confidence, raw_text,
                   cleaned_contact, gemini_result, final_contact, company_enrichment,
                   field_confidence, vlm_calls, ocr_calls, before_merge, bvars, fvars>>

\* "3. POST-PROCESS"
PostProcess ==
    /\ pc = "postprocess"
    /\ cleaned_contact' = IF parsed_contacts # <<>>
                          THEN PostprocessContact(parsed_contacts[1]) ELSE <<>>
    /\ pc' = "fallback"
    /\ UNCHANGED <<gemini_ocr, args, ocr_method, ocr_result, ocr_confidence, raw_text,
                   parsed_contacts, gemini_result, final_contact, company_enrichment,
                   field_confidence, vlm_calls, ocr_calls, before_merge, result, log,
                   bvars, fvars>>

\* a fallback step that fills the VLM record from the heuristic one instead
\* of replacing the heuristic record
CheckGeminiFallbackFilling ==
    /\ pc = "fallback"
    /\ IF ShouldUseGeminiFallback(gemini_ocr, ocr_confidence, cleaned_contact)
       THEN \E outcome \in VlmChoices :
              LET contact == ProcessWithGemini(outcome)
                  filled == [k \in DOMAIN contact |->
                               IF ~Truthy(k, contact[k]) /\ k \in DOMAIN cleaned_contact
                               THEN cleaned_contact[k] ELSE contact[k]]
              IN
              /\ gemini_result' = contact
              /\ vlm_calls' = vlm_calls + 1
              /\ log' = log \o FallbackLog(gemini_ocr, ocr_confidence, cleaned_contact)
                            \o ProcessWithGeminiLog(outcome)
              /\ IF contact # <<>>
                 THEN /\ final_contact' = filled
                      /\ ocr_method' = "gemini_fallback"
                      /\ ocr_confidence' = contact.confidence_score
                      /\ raw_text' = contact.raw_text
                 ELSE UNCHANGED <<final_contact, ocr_method, ocr_confidence, raw_text>>
       ELSE /\ log' = log \o FallbackLog(gemini_ocr, ocr_confidence, cleaned_contact)
            /\ UNCHANGED <<gemini_result, vlm_calls, final_contact, ocr_method,
                           ocr_confidence, raw_text>>
    /\ pc' = "select"
    /\ UNCHANGED <<gemini_ocr, args, ocr_result, parsed_contacts, cleaned_contact,
                   company_enrichment, field_confidence, ocr_calls, before_merge, result,
                   bvars, fvars>>

\* "4. CHECK IF GEMINI FALLBACK NEEDED"
CheckGeminiFallback ==
    /\ pc = "fallback"
    /\ IF ShouldUseGeminiFallback(gemini_ocr, ocr_confidence, cleaned_contact)
       THEN \E outcome \in VlmChoices :
              LET contact == ProcessWithGemini(outcome) IN
              /\ gemini_result' = contact
              /\ vlm_calls' = vlm_calls + 1
              /\ log' = log \o FallbackLog(gemini_ocr, ocr_confidence, cleaned_contact)
                            \o ProcessWithGeminiLog(outcome)
              /\ IF contact # <<>>
                 THEN /\ final_contact' = contact
                      /\ ocr_method' = "gemini_fallback"
                      /\ ocr_confidence' = contact.confidence_score
                      /\ raw_text' = contact.raw_text
                 ELSE UNCHANGED <<final_contact, ocr_method, ocr_confidence, raw_text>>
       ELSE /\ log' = log \o FallbackLog(gemini_ocr, ocr_confidence, cleaned_contact)
            /\ UNCHANGED <<gemini_result, vlm_calls, final_contact, ocr_method,
                           ocr_confidence, raw_text>>
    /\ pc' = "select"
    /\ UNCHANGED <<gemini_ocr, args, ocr_result, parsed_contacts, cleaned_contact,
                   company_enrichment, field_confidence, ocr_calls, before_merge, result,
                   bvars, fvars>>

\* the final_contact dict built from cleaned_contact
ContactFromCleaned(cleaned) ==
    [name |-> Get(cleaned, "name"),
     first_name |-> FirstName(Get(cleaned, "name")),
     last_name |-> LastName(Get(cleaned, "name")),
     title |-> Get(cleaned, "title"),
     company |-> Get(cleaned, "company"),
     email |-> Get(cleaned, "email"),
     phone |-> Get(cleaned, "phone"),
     website |-> Get(cleaned, "website"),
     address |-> Get(cleaned, "address"),
     confidence_score |-> cleaned.confidence_score]

\* a selection step that refuses a heuristic record for which escalation was
\* indicated
UseEasyOcrResultStrict ==
    /\ pc = "select"
    /\ IF final_contact # <<>>
       THEN /\ pc' = "enrich"
            /\ UNCHANGED <<final_contact, result>>
       ELSE IF parsed_contacts = <<>> \/ EscalationIndicated(ocr_confidence, cleaned_contact)
       THEN /\ result' = [success |-> FALSE, error |-> "No contact extracted",
                          raw_text |-> raw_text, ocr_confidence |-> ocr_confidence,
                          image |-> image_path]
            /\ pc' = "done"
            /\ UNCHANGED final_contact
       ELSE /\ final_contact' = ContactFromCleaned(cleaned_contact)
            /\ pc' = "enrich"
            /\ UNCHANGED result
    /\ UNCHANGED <<gemini_ocr, args, ocr_method, ocr_result, ocr_confidence, raw_text,
                   parsed_contacts, cleaned_contact, gemini_result, company_enrichment,
                   field_confidence, vlm_calls, ocr_calls, before_merge, log, bvars,
                   fvars>>

\* "5. USE EASYOCR RESULT IF NO GEMINI"
UseEasyOcrResult ==
    /\ pc = "select"
    /\ IF final_contact # <<>>
       THEN /\ pc' = "enrich"
            /\ UNCHANGED <<final_contact, result>>
       ELSE IF parsed_contacts = <<>>
       THEN /\ result' = [success |-> FALSE, error |-> "No contact extracted",
                          raw_text |-> raw_text, ocr_confidence |-> ocr_confidence,
                          image |-> image_path]
            /\ pc' = "done"
            /\ UNCHANGED final_contact
       ELSE /\ final_contact' = ContactFromCleaned(cleaned_contact)
            /\ pc' = "enrich"
            /\ UNCHANGED result
    /\ UNCHANGED <<gemini_ocr, args, ocr_method, ocr_result, ocr_confidence, raw_text,
                   parsed_contacts, cleaned_contact, gemini_result, company_enrichment,
                   field_confidence, vlm_calls, ocr_calls, before_merge, log, bvars,
                   fvars>>

\* "6. ENRICH (optional)"
Enrichment ==
    /\ pc = "enrich"
    /\ before_merge' = final_contact
    /\ IF /\ enrich
          /\ final_contact # <<>>
          /\ (Populated(final_contact, "email") \/ Populated(final_contact, "name"))
       THEN \E api \in ResearcherChoices :
              IF api = "raise"
              THEN /\ log' = Append(log, "warning: Enrichment failed")
                   /\ UNCHANGED final_contact
              ELSE /\ final_contact' =
                        MergeEnrichment(final_contact, ResearcherEnrich(final_contact, api))
                   /\ UNCHANGED log
       ELSE UNCHANGED <<final_contact, log>>
    /\ pc' = "company"
    /\ UNCHANGED <<gemini_ocr, args, ocr_method, ocr_result, ocr_confidence, raw_text,
                   parsed_contacts, cleaned_contact, gemini_result, company_enrichment,
                   field_confidence, vlm_calls, ocr_calls, result, bvars, fvars>>

\* "7. COMPANY ENRICHMENT"
CompanyEnrichment ==
    /\ pc = "company"
    /\ LET company_data == CompanyEnrich(Get(final_contact, "company"),
                                         Get(final_contact, "email"),
                                         Get(final_contact, "website"))
       IN /\ company_enrichment' = company_data
          /\ final_contact' = MergeCompany(final_contact, company_data)
    /\ pc' = "score"
    /\ UNCHANGED <<gemini_ocr, args, ocr_method, ocr_result, ocr_confidence, raw_text,
                   parsed_contacts, cleaned_contact, gemini_result, field_confidence,
                   vlm_calls, ocr_calls, before_merge, result, log, bvars, fvars>>

\* FieldConfidence.to_dict(): round(x, 2) of every score
FieldConfidenceDict(fc) ==
    [name |-> fc.name, title |-> fc.title, company |-> fc.company, email |-> fc.email,
     phone |-> fc.phone, website |-> fc.website, address |-> fc.address,
     linkedin |-> fc.linkedin,
     overall |-> (fc.overall + 50) \div 100,
     quality |-> [name |-> fc.name_quality, email |-> fc.email_quality,
                  phone |-> fc.phone_quality]]

\* "8. FIELD CONFIDENCE SCORING".  When the forced VLM call supplied the
\* contact, ocr_confidence was never bound: building the scorer raises
\* UnboundLocalError, which the stage's own except clause logs.
FieldConfidenceScoring ==
    /\ pc = "score"
    /\ IF ocr_result = <<>>
       THEN /\ log' = Append(log, "warning: Confidence scoring failed")
            /\ UNCHANGED <<field_confidence, final_contact>>
       ELSE LET confidence_scores == ScoreAllFields(ocr_confidence, final_contact) IN
            /\ field_confidence' = FieldConfidenceDict(confidence_scores)
            /\ final_contact' = Put(final_contact, "confidence_score",
                                    confidence_scores.overall)
            /\ UNCHANGED log
    /\ pc' = "return"
    /\ UNCHANGED <<gemini_ocr, args, ocr_method, ocr_result, ocr_confidence, raw_text,
                   parsed_contacts, cleaned_contact, gemini_result, company_enrichment,
                   vlm_calls, ocr_calls, before_merge, result, bvars, fvars>>

\* the success dict process_image returns
Return ==
    /\ pc = "return"
    /\ result' = [success |-> TRUE,
                  contact_data |-> final_contact,
                  all_contacts |-> <<final_contact>>,
                  contacts_count |-> 1,
                  raw_text |-> Get(final_contact, "raw_text"),
                  ocr_confidence |-> final_contact.confidence_score,
                  ocr_method |-> ocr_method,
                  field_confidence |-> field_confidence,
                  company_enrichment |-> company_enrichment,
                  image |-> image_path]
    /\ log' = Append(log, "info: Total processing time")
    /\ pc' = "done"
    /\ UNCHANGED <<gemini_ocr, args, locals, bvars, fvars>>

ProcessImage ==
    \/ ForceGemini
    \/ PrimaryOcr
    \/ Parse
    \/ PostProcess
    \/ CheckGeminiFallback
    \/ UseEasyOcrResult
    \/ Enrichment
    \/ CompanyEnrichment
    \/ FieldConfidenceScoring
    \/ Return

\* the state before any call, for a pipeline constructed with or without the
\* VLM collaborator
Idle ==
    /\ gemini_ocr \in {"None", "GeminiOCR"}
    /\ pc = "idle"
    /\ image_path = ""
    /\ enrich = TRUE
    /\ force_gemini = FALSE
    /\ ocr_method = "easyocr"
    /\ ocr_result = <<>>
    /\ ocr_confidence = 0
    /\ raw_text = <<>>
    /\ parsed_contacts = <<>>
    /\ cleaned_contact = <<>>
    /\ gemini_result = <<>>
    /\ final_contact = <<>>
    /\ company_enrichment = <<>>
    /\ field_confidence = <<>>
    /\ result = <<>>
    /\ log = <<>>
    /\ vlm_calls = 0
    /\ ocr_calls = 0
    /\ before_merge = <<>>
    /\ bpc = "idle"
    /\ image_paths = <<>>
    /\ results = <<>>
    /\ success_count = 0
    /\ batch_result = <<>>
    /\ decision = "Heuristic"
    /\ arg_text = <<>>
    /\ corrected_once = <<>>
    /\ corrected_twice = <<>>
    /\ extracted_phones = <<>>
    /\ NoParserCall

Init == Idle
Next == Start \/ ProcessImage
Spec == Init /\ [][Next]_vars

-----------------------------------------------------------------------------
(* CardResearchPipeline.process_batch *)

MaxBatch == 2

RECURSIVE ListsUpTo(_, _)
ListsUpTo(S, n) ==
    IF n = 0 THEN {<<>>}
    ELSE LET shorter == ListsUpTo(S, n - 1)
         IN shorter \cup {Append(l, x) : l \in {m \in shorter : Len(m) = n - 1}, x \in S}

\* a caller invokes process_batch(image_paths, enrich, force_gemini)
BatchStart ==
    /\ bpc \in {"idle", "done"}
    /\ pc \in {"idle", "done"}
    /\ \E paths \in ListsUpTo(Images, MaxBatch), e \in BOOLEAN, f \in BOOLEAN :
         /\ image_paths' = paths
         /\ enrich' = e
         /\ force_gemini' = f
    /\ results' = <<>>
    /\ success_count' = 0
    /\ batch_result' = <<>>
    /\ bpc' = "loop"
    /\ pc' = "idle"
    /\ UNCHANGED <<gemini_ocr, image_path, locals, result, log, fvars>>

\* "for path in image_paths": the call of process_image for the next path
BatchCall ==
    /\ bpc = "loop"
    /\ pc = "idle"
    /\ Len(results) < Len(image_paths)
    /\ Enter(image_paths[Len(results) + 1], enrich, force_gemini)
    /\ UNCHANGED <<gemini_ocr, bvars, fvars>>

\* a loop body that gives up the batch at the first failed image
BatchCollectAbort ==
    /\ bpc = "loop"
    /\ pc = "done"
    /\ results' = Append(results, result)
    /\ success_count' = IF result.success THEN success_count + 1 ELSE success_count
    /\ pc' = "idle"
    /\ IF result.success
       THEN UNCHANGED <<bpc, batch_result>>
       ELSE /\ bpc' = "done"
            /\ batch_result' = [success |-> FALSE,
                                total |-> Len(image_paths),
                                successful |-> success_count,
                                failed |-> 1,
                                results |-> Append(results, result)]
    /\ UNCHANGED <<gemini_ocr, args, locals, result, log, image_paths, fvars>>

\* the loop body after the call returned
BatchCollect ==
    /\ bpc = "loop"
    /\ pc = "done"
    /\ results' = Append(results, result)
    /\ success_count' = IF result.success THEN success_count + 1 ELSE success_count
    /\ pc' = "idle"
    /\ UNCHANGED <<gemini_ocr, args, locals, result, log, bpc, image_paths,
                   batch_result, fvars>>

\* the dict process_batch returns
BatchReturn ==
    /\ bpc = "loop"
    /\ pc = "idle"
    /\ Len(results) = Len(image_paths)
    /\ batch_result' = [success |-> TRUE,
                        total |-> Len(image_paths),
                        successful |-> success_count,
                        failed |-> Len(image_paths) - success_count,
                        results |-> results]
    /\ bpc' = "done"
    /\ UNCHANGED <<gemini_ocr, pvars, image_paths, results, success_count, fvars>>

NextBatch == BatchStart \/ BatchCall \/ ProcessImage \/ BatchCollect \/ BatchReturn
SpecBatch == Init /\ [][NextBatch]_vars

-----------------------------------------------------------------------------
(* The escalation decision on its own: _should_use_gemini_fallback applied to
   every combination of a confidence and a heuristic record *)

PolicyConfidences == {4000, 6999, 7000, 7001, 10000}
PolicyNames == {<<>>, <<"A", "l", " ", "B", "o">>, <<"A", "1", " ", "B", "o">>}
\* "Ac3m3 4U": 3 digits in 8 characters; the 30-character name: 3 digits, a
\* density of exactly 10%; the 29-character one: just above 10%
PolicyCompanies ==
    {<<>>, <<"A", "c", "m", "e">>, <<"3", "M">>, <<"A", "c", "3", "m", "3", " ", "4", "U">>, <<"A", "c", "m", "e", " ", "H", "o", "l", "d", "i", "n", "g", "s", " ", "1", "2", "3", " ", "I", "n", "c", "o", "r", "p", "o", "r", "a", "t", "e", "d">>,
     <<"A", "c", "m", "e", " ", "H", "o", "l", "d", "i", "n", "g", " ", "1", "2", "3", " ", "I", "n", "c", "o", "r", "p", "o", "r", "a", "t", "e", "d">>}
PolicyEmails == {<<>>, <<"a", "l", "@", "a", "c", "m", "e", ".", "i", "o">>, <<"a", "1", "@", "a", "c", "m", "e", ".", "i", "o">>, <<"a", "l", "0", "@", "a", "c", "m", "e", ".", "i", "o">>, <<"a", "l", "@", "a", "c", "m", "e", "1", ".", "i", "o">>}
PolicyPhones == {<<>>, <<<<"4", "1", "5", "5", "5", "5", "0", "1", "0", "0">>>>}
PolicyRecords ==
    {[name |-> n, company |-> c, email |-> e, phone |-> p] :
        n \in PolicyNames, c \in PolicyCompanies, e \in PolicyEmails, p \in PolicyPhones}

InitPolicy ==
    \E g \in {"None", "GeminiOCR"}, c \in PolicyConfidences, r \in PolicyRecords :
      /\ gemini_ocr = g
      /\ ocr_confidence = c
      /\ cleaned_contact = r
      /\ pc = "fallback"
      /\ decision = "Heuristic"
      /\ image_path = "" /\ enrich = TRUE /\ force_gemini = FALSE
      /\ ocr_method = "easyocr" /\ ocr_result = <<>> /\ raw_text = <<>>
      /\ parsed_contacts = <<>> /\ gemini_result = <<>> /\ final_contact = <<>>
      /\ company_enrichment = <<>> /\ field_confidence = <<>> /\ result = <<>>
      /\ log = <<>> /\ vlm_calls = 0 /\ ocr_calls = 0 /\ before_merge = <<>>
      /\ bpc = "idle" /\ image_paths = <<>> /\ results = <<>> /\ success_count = 0
      /\ batch_result = <<>>
      /\ arg_text = <<>> /\ corrected_once = <<>> /\ corrected_twice = <<>>
      /\ extracted_phones = <<>>
      /\ NoParserCall

\* the call self._should_use_gemini_fallback(ocr_confidence, cleaned_contact)
Decide ==
    /\ decision = "Heuristic"
    /\ decision' = IF ShouldUseGeminiFallback(gemini_ocr, ocr_confidence, cleaned_contact)
                   THEN "Escalated" ELSE "Accepted"
    /\ log' = log \o FallbackLog(gemini_ocr, ocr_confidence, cleaned_contact)
    /\ UNCHANGED <<gemini_ocr, pc, args, locals, result, bvars, arg_text,
                   corrected_once, corrected_twice, extracted_phones, xvars>>

NextPolicy == Decide
SpecPolicy == InitPolicy /\ [][NextPolicy]_vars

-----------------------------------------------------------------------------
(* Text correction and phone extraction on their own *)

MaxLen == 5

\* the strings over S of length at most n
StringsUpTo(S, n) == ListsUpTo(S, n)

\* every short string over letters, the digits the rules rewrite and a space;
\* and lines that reach the dictionary and the punctuation rules
CorrectionInputs ==
    StringsUpTo({"a", "b", "1", "0", " "}, MaxLen)
    \cup {<<"W", "i", "1", "1", "i", "a", "m", " ", "M", "i", "1", "1", "e", "r">>, <<"R", "e", "a", "1", " ", "E", "s", "t", "a", "t", "e", " ", "A", "g", "e", "n", "t">>, <<"i", "n", "f", "o", "@", "r", "e", "a", "1", "t", "y", ".", "c", "0", "m">>,
          <<"a", "l", " ", "@", " ", "a", "c", "m", "e", " ", ".", " ", "c", "o", "m">>, <<"w", "w", "w", " ", ".", " ", "a", "c", "m", "e", ".", "c", "0", "m">>, <<"a", "1", "b", "1", "c", "1", "d">>, <<"x", "0", "y", "0", "z">>,
          <<"1", "s", "t", " ", " ", " ", "f", "1", "o", "o", "r", " ", " ", "1", "0">>}

\* the state in which f is about to be applied to s
PureCall(f, s) ==
    /\ pc = f
    /\ arg_text = s
    /\ corrected_once = <<>> /\ corrected_twice = <<>> /\ extracted_phones = <<>>
    /\ NoParserCall
    /\ gemini_ocr = "None" /\ decision = "Heuristic"
    /\ image_path = "" /\ enrich = TRUE /\ force_gemini = FALSE
    /\ ocr_method = "easyocr" /\ ocr_result = <<>> /\ ocr_confidence = 0
    /\ raw_text = <<>> /\ parsed_contacts = <<>> /\ cleaned_contact = <<>>
    /\ gemini_result = <<>> /\ final_contact = <<>>
    /\ company_enrichment = <<>> /\ field_confidence = <<>> /\ result = <<>>
    /\ log = <<>> /\ vlm_calls = 0 /\ ocr_calls = 0 /\ before_merge = <<>>
    /\ bpc = "idle" /\ image_paths = <<>> /\ results = <<>> /\ success_count = 0
    /\ batch_result = <<>>

InitCorrect == \E s \in CorrectionInputs : PureCall("correct", s)

\* _correct_ocr_text(arg_text)
Correct ==
    /\ pc = "correct"
    /\ corrected_once' = CorrectOcrText(arg_text)
    /\ pc' = "correct again"
    /\ UNCHANGED <<gemini_ocr, args, locals, result, log, bvars, decision, arg_text,
                   corrected_twice, extracted_phones, xvars>>

\* _correct_ocr_text applied to its own output
CorrectAgain ==
    /\ pc = "correct again"
    /\ corrected_twice' = CorrectOcrText(corrected_once)
    /\ pc' = "corrected"
    /\ UNCHANGED <<gemini_ocr, args, locals, result, log, bvars, decision, arg_text,
                   corrected_once, extracted_phones, xvars>>

NextCorrect == Correct \/ CorrectAgain
SpecCorrect == InitCorrect /\ [][NextCorrect]_vars

MaxRun == 11

\* the first n digits of 1234567890 1234567890 ...
DigitRun(n) == [k \in 1..n |-> <<"1", "2", "3", "4", "5", "6", "7", "8", "9", "0">>[((k - 1) % 10) + 1]]

\* an optional prefix, a run of digits, a separator, a second run of digits
PhoneInputs ==
    {prefix \o DigitRun(n1) \o sep \o DigitRun(n2) :
        prefix \in {<<>>, <<"+">>, <<"t", "e", "l", " ">>},
        sep \in {<<>>, <<"-">>, <<" ">>, <<" ", " ", "x", " ">>},
        n1 \in 0..MaxRun, n2 \in 0..MaxRun}

InitPhones == \E s \in PhoneInputs : PureCall("extract", s)

\* _extract_phones(arg_text)
Extract ==
    /\ pc = "extract"
    /\ extracted_phones' = ExtractPhones(arg_text)
    /\ pc' = "extracted"
    /\ UNCHANGED <<gemini_ocr, args, locals, result, log, bvars, decision, arg_text,
                   corrected_once, corrected_twice, xvars>>

NextPhones == Extract
SpecPhones == InitPhones /\ [][NextPhones]_vars


-----------------------------------------------------------------------------
(* The scorer on its own: score_all_fields applied to every combination of
   field values and a base confidence *)

ScoreBases == {0, 7000, 10000}
ScoreNames == {<<>>, <<"A", "l", " ", "B", "o">>, <<"a", "1", " ", " ", "b", "0">>}
ScoreEmails == {<<>>, <<"a", "l", "@", "a", "c", "m", "e", ".", "i", "o">>, <<"a", "l", "@", "g", "m", "a", "i", "l", ".", "c", "o", "m">>, <<"a", "l", "@", "a", "c", "m", "e">>}
ScorePhones == {<<>>, <<<<"+", "1", " ", "4", "1", "5", " ", "5", "5", "5", " ", "0", "1", "0", "0">>>>, <<<<"5", "5", "5">>>>}
ScoreCompanies == {<<>>, <<"A", "c", "m", "e", " ", "I", "n", "c">>, <<"3", "M">>}
ScoreTitles == {<<>>, <<"S", "e", "n", "i", "o", "r", " ", "M", "a", "n", "a", "g", "e", "r">>}
ScoreWebsites == {<<>>, <<"w", "w", "w", ".", "a", "c", "m", "e", ".", "i", "o">>}
ScoreAddresses == {<<>>, <<"1", " ", "M", "a", "i", "n", " ", "S", "t", ",", " ", "R", "e", "n", "o", " ", "N", "V", " ", "8", "9", "5", "0", "1">>}
ScoreLinkedins == {<<>>, <<"l", "i", "n", "k", "e", "d", "i", "n", ".", "c", "o", "m", "/", "i", "n", "/", "a", "l">>}
ScoreRecords ==
    {[name |-> n, email |-> e, phone |-> p, company |-> c, title |-> t,
      website |-> w, address |-> a, linkedin |-> l] :
        n \in ScoreNames, e \in ScoreEmails, p \in ScorePhones, c \in ScoreCompanies,
        t \in ScoreTitles, w \in ScoreWebsites, a \in ScoreAddresses,
        l \in ScoreLinkedins}

InitScore ==
    \E b \in ScoreBases, r \in ScoreRecords :
      /\ ocr_confidence = b
      /\ final_contact = r
      /\ pc = "score all"
      /\ gemini_ocr = "None" /\ decision = "Heuristic"
      /\ image_path = "" /\ enrich = TRUE /\ force_gemini = FALSE
      /\ ocr_method = "easyocr" /\ ocr_result = <<>> /\ raw_text = <<>>
      /\ parsed_contacts = <<>> /\ cleaned_contact = <<>> /\ gemini_result = <<>>
      /\ company_enrichment = <<>> /\ field_confidence = <<>> /\ result = <<>>
      /\ log = <<>> /\ vlm_calls = 0 /\ ocr_calls = 0 /\ before_merge = <<>>
      /\ bpc = "idle" /\ image_paths = <<>> /\ results = <<>> /\ success_count = 0
      /\ batch_result = <<>>
      /\ arg_text = <<>> /\ corrected_once = <<>> /\ corrected_twice = <<>>
      /\ extracted_phones = <<>>
      /\ NoParserCall

\* FieldConfidenceScorer(base_ocr_confidence=ocr_confidence).score_all_fields(final_contact)
ScoreAll ==
    /\ pc = "score all"
    /\ field_confidence' = ScoreAllFields(ocr_confidence, final_contact)
    /\ pc' = "scored"
    /\ UNCHANGED <<gemini_ocr, args, ocr_method, ocr_result, ocr_confidence, raw_text,
                   parsed_contacts, cleaned_contact, gemini_result, final_contact,
                   company_enrichment, vlm_calls, ocr_calls, before_merge, result, log,
                   bvars, fvars>>

NextScore == ScoreAll
SpecScore == InitScore /\ [][NextScore]_vars

-----------------------------------------------------------------------------
(* The parser on its own: parse, _extract_name and _extract_website applied
   to card texts *)

\* ContactData.is_valid
ContactIsValid(contact) ==
    contact.name # <<>> \/ contact.email # <<>> \/ contact.phone # <<>>

\* the weights of _calculate_confidence, hundredths
ConfidenceWeights ==
    [name |-> 25, email |-> 25, phone |-> 15, company |-> 15, title |-> 10,
     website |-> 5, address |-> 5]
\* n / d rounded to the nearest integer
RoundDiv(n, d) == (2 * n + d) \div (2 * d)

\* CardDataParser._calculate_confidence, 1/10000; ocr_results is a list of
\* (text, confidence) pairs, <<>> for None
CalculateConfidence(contact, ocr_results) ==
    LET Counts(k) == IF k = "phone" THEN Len(contact[k]) > 0 ELSE Strip(contact[k]) # <<>>
        score == SumOver([k \in DOMAIN ConfidenceWeights |->
                            IF Counts(k) THEN ConfidenceWeights[k] ELSE 0],
                         DOMAIN ConfidenceWeights)
        max_score == SumOver(ConfidenceWeights, DOMAIN ConfidenceWeights)
        total == SumOver([k \in DOMAIN ocr_results |-> ocr_results[k][2]], DOMAIN ocr_results)
        n == Len(ocr_results)
    IN IF ocr_results # <<>>
       THEN RoundDiv(score * 7000 * 10 * n + 3 * total * max_score, 10 * n * max_score)
       ELSE RoundDiv(score * 10000, max_score)

\* the ContactData that parse builds from the cleaned lines, the e-mail
\* address and the name
ParsedFields(text, lines, email, name) ==
    ContactData([raw_text |-> text,
                 email |-> email,
                 phone |-> ExtractPhones(text),
                 website |-> ExtractWebsite(text),
                 linkedin |-> ExtractLinkedin(text),
                 twitter |-> ExtractTwitter(text),
                 name |-> name,
                 first_name |-> SplitName(name).first_name,
                 last_name |-> SplitName(name).last_name,
                 title |-> ExtractTitle(lines),
                 company |-> ExtractCompany(lines, email),
                 address |-> ExtractAddress(lines)])
\* contact.confidence_score = self._calculate_confidence(contact, ocr_results)
ScoredContact(contact, ocr_results) ==
    [contact EXCEPT !.confidence_score = CalculateConfidence(contact, ocr_results)]
ParsedContact(text, lines, ocr_results) ==
    ScoredContact(ParsedFields(text, lines, ExtractEmail(text), ExtractName(lines, text)),
                  ocr_results)

\* parse without its guard against an empty text
ParserParseUnguarded(text, ocr_results) ==
    [contact |-> ParsedContact(text, CleanLines(text), ocr_results),
     log |-> <<"info: Parsed contact">>]

\* CardDataParser.parse: the ContactData it returns and what it logs
ParserParse(text, ocr_results) ==
    IF Strip(text) = <<>>
    THEN [contact |-> ContactData([raw_text |-> text]),
          log |-> <<"warning: Empty text provided for parsing">>]
    ELSE ParserParseUnguarded(text, ocr_results)

\* the state in which function f of the parser is about to be called
ParserCall(f, s, lines, ocr_results) ==
    /\ pc = f
    /\ arg_text = s
    /\ arg_lines = lines
    /\ arg_ocr_results = ocr_results
    /\ parsed_contact = <<>> /\ extracted_name = <<>> /\ extracted_website = <<>>
    /\ NoResearcherCall
    /\ corrected_once = <<>> /\ corrected_twice = <<>> /\ extracted_phones = <<>>
    /\ gemini_ocr = "None" /\ decision = "Heuristic"
    /\ image_path = "" /\ enrich = TRUE /\ force_gemini = FALSE
    /\ ocr_method = "easyocr" /\ ocr_result = <<>> /\ ocr_confidence = 0
    /\ raw_text = <<>> /\ parsed_contacts = <<>> /\ cleaned_contact = <<>>
    /\ gemini_result = <<>> /\ final_contact = <<>>
    /\ company_enrichment = <<>> /\ field_confidence = <<>> /\ result = <<>>
    /\ log = <<>> /\ vlm_calls = 0 /\ ocr_calls = 0 /\ before_merge = <<>>
    /\ bpc = "idle" /\ image_paths = <<>> /\ results = <<>> /\ success_count = 0
    /\ batch_result = <<>>

\* card texts: three lines, any of them empty
BlankTexts == {<<>>, <<" ">>, <<" ", "\t">>, <<"\n">>}
CardNames == {<<>>, <<"A", "l", " ", "B", "o">>}
CardEmails == {<<>>, <<"a", "l", "@", "a", "c", "m", "e", ".", "i", "o">>}
CardExtras == {<<>>, <<"5", "5", "5", "-", "1", "2", "3", "-", "4", "5", "6", "7">>, <<"w", "w", "w", ".", "b", ".", "o", "r", "g">>, <<"C", "E", "O">>, <<" ", " ">>}
ParseTexts ==
    BlankTexts \cup {Join(<<n, e, x>>, <<"\n">>) : n \in CardNames, e \in CardEmails, x \in CardExtras}
ParseOcrResults ==
    {<<>>, <<<<<<"A", "l", " ", "B", "o">>, 9000>>>>, <<<<<<"A", "l">>, 8000>>, <<<<"B", "o">>, 6000>>>>}

InitParse == \E s \in ParseTexts, o \in ParseOcrResults : ParserCall("parse", s, <<>>, o)

\* parse(arg_text, arg_ocr_results)
ParseText ==
    /\ pc = "parse"
    /\ parsed_contact' = ParserParse(arg_text, arg_ocr_results).contact
    /\ log' = log \o ParserParse(arg_text, arg_ocr_results).log
    /\ pc' = "parsed"
    /\ UNCHANGED <<gemini_ocr, args, locals, result, bvars, decision, arg_text,
                   corrected_once, corrected_twice, extracted_phones, arg_ocr_results,
                   arg_lines, extracted_name, extracted_website, rvars>>

NextParse == ParseText
SpecParse == InitParse /\ [][NextParse]_vars

\* card texts for _extract_name: up to MaxNameLines lines, the k-th of them
\* the k-th person in capitals, the k-th person capitalised, or a line that is
\* no name
MaxNameLines == 4
CardPeople == <<<<"A", "L", " ", "B", "O">>, <<"C", "Y", " ", "D", "E">>, <<"E", "F", " ", "G", "H">>, <<"I", "J", " ", "K", "L">>, <<"M", "N", " ", "O", "P">>, <<"Q", "R", " ", "S", "T">>>>
NoNameLine == <<"x", "1">>
RECURSIVE NameCards(_)
NameCards(n) ==
    IF n = 0 THEN {<<>>}
    ELSE {Append(c, l) : c \in NameCards(n - 1),
                         l \in {CardPeople[n], Title(CardPeople[n]), NoNameLine}}
NameTexts ==
    {Join(c, <<"\n">>) : c \in UNION {NameCards(n) : n \in 1..MaxNameLines}}

InitName == \E s \in NameTexts : ParserCall("extract name", s, CleanLines(s), <<>>)

\* _extract_name(arg_lines, arg_text), as parse calls it
ExtractNameOfCard ==
    /\ pc = "extract name"
    /\ extracted_name' = ExtractName(arg_lines, arg_text)
    /\ pc' = "name extracted"
    /\ UNCHANGED <<gemini_ocr, args, locals, result, log, bvars, decision, arg_text,
                   corrected_once, corrected_twice, extracted_phones, arg_ocr_results,
                   arg_lines, parsed_contact, extracted_website, rvars>>

NextName == ExtractNameOfCard
SpecName == InitName /\ [][NextName]_vars

\* card texts for _extract_website: an e-mail address and a website, in
\* either order, on one line or on two
SiteEmails == {<<>>, <<"a", "l", "@", "a", "c", "m", "e", ".", "i", "o">>, <<"a", "l", "@", "b", ".", "o", "r", "g">>}
SiteUrls ==
    {<<>>, <<"w", "w", "w", ".", "a", "c", "m", "e", ".", "i", "o">>, <<"a", "c", "m", "e", " ", ".", "i", "o">>, <<"a", "c", "m", "e", ".", "i", "o">>, <<"w", "w", "w", ".", "b", ".", "o", "r", "g">>, <<"h", "t", "t", "p", ":", "/", "/", "x", ".", "c", "o">>,
     <<"w", "w", "w", ".", "l", "i", "n", "k", "e", "d", "i", "n", ".", "c", "o", "m">>, <<"l", "i", "n", "k", "e", "d", "i", "n", " ", ".", "c", "o", "m">>, <<"t", "w", "i", "t", "t", "e", "r", ".", "c", "o", "m">>, <<"w", "w", "w", " ", "x", ";", "n", "e", "t">>}
SiteTexts ==
    {Join(<<a, b>>, sep) : a \in SiteEmails, b \in SiteUrls, sep \in {<<" ">>, <<"\n">>}}
    \cup {Join(<<b, a>>, <<"\n">>) : a \in SiteEmails, b \in SiteUrls}

InitWebsite == \E s \in SiteTexts : ParserCall("extract website", s, <<>>, <<>>)

\* _extract_website(arg_text)
ExtractWebsiteOfCard ==
    /\ pc = "extract website"
    /\ extracted_website' = ExtractWebsite(arg_text)
    /\ pc' = "website extracted"
    /\ UNCHANGED <<gemini_ocr, args, locals, result, log, bvars, decision, arg_text,
                   corrected_once, corrected_twice, extracted_phones, arg_ocr_results,
                   arg_lines, parsed_contact, extracted_name, rvars>>

NextWebsite == ExtractWebsiteOfCard
SpecWebsite == InitWebsite /\ [][NextWebsite]_vars

-----------------------------------------------------------------------------
(* The researcher on its own, for every combination of credentials and
   answers, next to process_image *)

EnrichNames == {<<>>, <<"A", "l", " ", "B", "o">>}
EnrichEmails == {<<>>, <<"a", "l", "@", "a", "c", "m", "e", ".", "i", "o">>, <<"a", "l", "@", "g", "m", "a", "i", "l", ".", "c", "o", "m">>, <<"a", "l">>}
EnrichCompanies == {<<>>, <<"A", "c", "m", "e">>}
EnrichContacts ==
    {[name |-> n, email |-> e, company |-> c] :
        n \in EnrichNames, e \in EnrichEmails, c \in EnrichCompanies}
ApiKeys == [hunter : BOOLEAN, abstract : BOOLEAN, github : BOOLEAN]

InitEnrich ==
    \E c \in EnrichContacts, k \in ApiKeys, a \in [Sources -> ApiAnswers] :
      /\ arg_contact = c /\ api_keys = k /\ api_answers = a
      /\ enriched = <<>> /\ attempted = {}
      /\ NoPostprocessCall
      /\ pc = "enrich call"
      /\ arg_ocr_results = <<>> /\ arg_lines = <<>> /\ parsed_contact = <<>>
      /\ extracted_name = <<>> /\ extracted_website = <<>>
      /\ arg_text = <<>> /\ corrected_once = <<>> /\ corrected_twice = <<>>
      /\ extracted_phones = <<>>
      /\ gemini_ocr = "None" /\ decision = "Heuristic"
      /\ image_path = "" /\ enrich = TRUE /\ force_gemini = FALSE
      /\ ocr_method = "easyocr" /\ ocr_result = <<>> /\ ocr_confidence = 0
      /\ raw_text = <<>> /\ parsed_contacts = <<>> /\ cleaned_contact = <<>>
      /\ gemini_result = <<>> /\ final_contact = <<>>
      /\ company_enrichment = <<>> /\ field_confidence = <<>> /\ result = <<>>
      /\ log = <<>> /\ vlm_calls = 0 /\ ocr_calls = 0 /\ before_merge = <<>>
      /\ bpc = "idle" /\ image_paths = <<>> /\ results = <<>> /\ success_count = 0
      /\ batch_result = <<>>

\* researcher.enrich(arg_contact)
EnrichContact ==
    /\ pc = "enrich call"
    /\ enriched' = Enrich(arg_contact, api_keys, api_answers).dict
    /\ attempted' = Enrich(arg_contact, api_keys, api_answers).attempted
    /\ pc' = "enrich returned"
    /\ UNCHANGED <<gemini_ocr, args, locals, result, log, bvars, decision, arg_text,
                   corrected_once, corrected_twice, extracted_phones, arg_ocr_results,
                   arg_lines, parsed_contact, extracted_name, extracted_website,
                   api_keys, api_answers, arg_contact, tvars>>

InitEnrichOrIdle == InitEnrich \/ Idle
NextEnrich == EnrichContact \/ Start \/ ProcessImage
SpecEnrich == InitEnrichOrIdle /\ [][NextEnrich]_vars

-----------------------------------------------------------------------------
(* OCRExtractor._postprocess_text on its own *)

\* one iteration of the loop of _postprocess_text: the lines that it appends
\* to cleaned_lines for one raw line
PostprocessLine(raw) ==
    LET kept(line) ==
          IF Len(Strip(line)) > 1 /\ 2 * CountIn(line, Alnum) > Len(line)
          THEN <<Strip(line)>> ELSE <<>>
    IN kept(CorrectOcrText(raw))

\* OCRExtractor._postprocess_text(lines)
PostprocessText(lines) == ConcatMap(lines, PostprocessLine)

MaxLines == 3

\* raw OCR lines: empty, one character, all letters, exactly half, more than
\* half and less than half alphanumeric, and one that the correction rewrites
RawLines ==
    {<<>>, <<"a">>, <<"a", "b">>, <<"a", "-">>, <<"a", "b", "-", "-">>, <<"a", "b", "-">>, <<"a", "-", "-">>, <<"w", "1", "n", " ", "-">>}

InitPostprocess ==
    \E l \in ListsUpTo(RawLines, MaxLines) :
      /\ arg_raw_lines = l /\ cleaned_lines = <<>> /\ NoRequest
      /\ pc = "postprocess text"
      /\ arg_text = <<>>
      /\ corrected_once = <<>> /\ corrected_twice = <<>> /\ extracted_phones = <<>>
      /\ arg_ocr_results = <<>> /\ arg_lines = <<>> /\ parsed_contact = <<>>
      /\ extracted_name = <<>> /\ extracted_website = <<>>
      /\ api_keys = <<>> /\ api_answers = <<>> /\ arg_contact = <<>>
      /\ enriched = <<>> /\ attempted = {}
      /\ gemini_ocr = "None" /\ decision = "Heuristic"
      /\ image_path = "" /\ enrich = TRUE /\ force_gemini = FALSE
      /\ ocr_method = "easyocr" /\ ocr_result = <<>> /\ ocr_confidence = 0
      /\ raw_text = <<>> /\ parsed_contacts = <<>> /\ cleaned_contact = <<>>
      /\ gemini_result = <<>> /\ final_contact = <<>>
      /\ company_enrichment = <<>> /\ field_confidence = <<>> /\ result = <<>>
      /\ log = <<>> /\ vlm_calls = 0 /\ ocr_calls = 0 /\ before_merge = <<>>
      /\ bpc = "idle" /\ image_paths = <<>> /\ results = <<>> /\ success_count = 0
      /\ batch_result = <<>>

\* _postprocess_text(arg_raw_lines)
Postprocess ==
    /\ pc = "postprocess text"
    /\ cleaned_lines' = PostprocessText(arg_raw_lines)
    /\ pc' = "text postprocessed"
    /\ UNCHANGED <<gemini_ocr, args, locals, result, log, bvars, decision, arg_text,
                   corrected_once, corrected_twice, extracted_phones, arg_ocr_results,
                   arg_lines, parsed_contact, extracted_name, extracted_website,
                   api_keys, api_answers, arg_contact, enriched, attempted,
                   arg_raw_lines, svars>>

NextPostprocess == Postprocess
SpecPostprocess == InitPostprocess /\ [][NextPostprocess]_vars

-----------------------------------------------------------------------------
(* The upload routes of src/api/routes.py, /api/process and /api/batch with at
   most 10 files, served by concurrent threads.  A request is a record of its
   handler's position and locals; the upload folder and the module's _pipeline
   are shared. *)

ALLOWED_EXTENSIONS == {<<"p", "n", "g">>, <<"j", "p", "g">>, <<"j", "p", "e", "g">>, <<"g", "i", "f">>, <<"b", "m", "p">>, <<"w", "e", "b", "p">>}

\* Config.is_allowed_file(filename)
AllowedFile(filename) ==
    /\ InSeq(".", filename)
    /\ \E i \in DOMAIN filename :
         /\ filename[i] = "."
         /\ ~InSeq(".", SubSeq(filename, i + 1, Len(filename)))
         /\ StrLower(SubSeq(filename, i + 1, Len(filename))) \in ALLOWED_EXTENSIONS

\* werkzeug's secure_filename on names of letters, digits, '.', '_' and
\* spaces: runs of whitespace become one '_'
SecureFilename(filename) == Join(SplitWS(filename), <<"_">>)

\* pipeline.process_image as the routes see it: a result computed from the
\* bytes found at the path, or a failure when there is no file
ProcessImageAt(path, folder) ==
    IF folder[path] = <<>>
    THEN [success |-> FALSE, image |-> path, bytes |-> <<>>]
    ELSE [success |-> TRUE, image |-> path, bytes |-> folder[path]]

MaxFiles == 2
Clients == {1, 2}
RawNames == {<<"a", " ", "b", ".", "j", "p", "g">>, <<"a", "_", "b", ".", "j", "p", "g">>, <<"n", ".", "t", "x", "t">>}
UploadPaths == {SecureFilename(n) : n \in RawNames}

\* the files of request r: each upload has bytes of its own
Uploads(r, names) == [j \in DOMAIN names |-> [filename |-> names[j], bytes |-> <<r, j>>]]

NewRequest(route, files) ==
    [route |-> route, files |-> files, rpc |-> "save", k |-> 1, saved_paths |-> <<>>,
     pipeline |-> 0, results |-> <<>>, response |-> <<>>]

UploadRequests(r) ==
    {NewRequest("process", Uploads(r, <<n>>)) : n \in RawNames}
    \cup {NewRequest("batch", Uploads(r, names)) :
            names \in ListsUpTo(RawNames, MaxFiles) \ {<<>>}}

InitUpload ==
    /\ requests \in [Clients -> UNION {UploadRequests(r) : r \in Clients}]
    /\ \A r \in Clients : requests[r] \in UploadRequests(r)
    /\ upload_folder = [p \in UploadPaths |-> <<>>]
    /\ global_pipeline = 0 /\ constructed = 0 /\ removed = {}
    /\ batch_size = 20 /\ active_jobs = <<>>
    /\ arg_raw_lines = <<>> /\ cleaned_lines = <<>>
    /\ pc = "serving"
    /\ arg_text = <<>>
    /\ corrected_once = <<>> /\ corrected_twice = <<>> /\ extracted_phones = <<>>
    /\ arg_ocr_results = <<>> /\ arg_lines = <<>> /\ parsed_contact = <<>>
    /\ extracted_name = <<>> /\ extracted_website = <<>>
    /\ api_keys = <<>> /\ api_answers = <<>> /\ arg_contact = <<>>
    /\ enriched = <<>> /\ attempted = {}
    /\ gemini_ocr = "None" /\ decision = "Heuristic"
    /\ image_path = "" /\ enrich = TRUE /\ force_gemini = FALSE
    /\ ocr_method = "easyocr" /\ ocr_result = <<>> /\ ocr_confidence = 0
    /\ raw_text = <<>> /\ parsed_contacts = <<>> /\ cleaned_contact = <<>>
    /\ gemini_result = <<>> /\ final_contact = <<>>
    /\ company_enrichment = <<>> /\ field_confidence = <<>> /\ result = <<>>
    /\ log = <<>> /\ vlm_calls = 0 /\ ocr_calls = 0 /\ before_merge = <<>>
    /\ bpc = "idle" /\ image_paths = <<>> /\ results = <<>> /\ success_count = 0
    /\ batch_result = <<>>

\* everything but the web layer
nonserver ==
    <<gemini_ocr, pvars, bvars, decision, arg_text, corrected_once, corrected_twice,
      extracted_phones, arg_ocr_results, arg_lines, parsed_contact, extracted_name,
      extracted_website, api_keys, api_answers, arg_contact, enriched, attempted,
      arg_raw_lines, cleaned_lines>>

\* request r moves on with the fields of u replaced
Step(r, u) == requests' = [requests EXCEPT ![r] = u @@ requests[r]]

\* the next position of a loop over list: the body again, or after
LoopNext(req, list, after) ==
    IF req.k < Len(list) THEN [rpc |-> req.rpc, k |-> req.k + 1]
    ELSE [rpc |-> after, k |-> 1]

\* file.save(path) for the next uploaded file: a file that is not allowed ends
\* /api/process with 400 and is skipped by /api/batch, which answers 400 when
\* it saved nothing
SaveUpload(r) ==
    LET req == requests[r]
        file == req.files[req.k]
        filename == SecureFilename(file.filename)
        saved == IF AllowedFile(file.filename) THEN Append(req.saved_paths, filename)
                 ELSE req.saved_paths
    IN /\ req.rpc = "save"
       /\ upload_folder' = IF AllowedFile(file.filename)
                           THEN [upload_folder EXCEPT ![filename] = file.bytes]
                           ELSE upload_folder
       /\ Step(r, IF req.k = Len(req.files) /\ saved = <<>>
                  THEN [rpc |-> "done", response |-> [success |-> FALSE, status |-> 400]]
                  ELSE [saved_paths |-> saved] @@ LoopNext(req, req.files, "get pipeline"))
       /\ UNCHANGED <<global_pipeline, constructed, removed, batch_size, active_jobs,
                      nonserver>>

\* get_pipeline: "if _pipeline is None"
GetPipelineTest(r) ==
    /\ requests[r].rpc = "get pipeline"
    /\ Step(r, [rpc |-> IF global_pipeline = 0 THEN "construct" ELSE "return pipeline"])
    /\ UNCHANGED <<upload_folder, global_pipeline, constructed, removed, batch_size,
                   active_jobs, nonserver>>

\* get_pipeline: "_pipeline = CardResearchPipeline(...)"
GetPipelineConstruct(r) ==
    /\ requests[r].rpc = "construct"
    /\ constructed' = constructed + 1
    /\ global_pipeline' = constructed + 1
    /\ Step(r, [rpc |-> "return pipeline"])
    /\ UNCHANGED <<upload_folder, removed, batch_size, active_jobs, nonserver>>

\* get_pipeline: "return _pipeline"
GetPipelineReturn(r) ==
    /\ requests[r].rpc = "return pipeline"
    /\ Step(r, [rpc |-> "process", pipeline |-> global_pipeline])
    /\ UNCHANGED <<upload_folder, global_pipeline, constructed, removed, batch_size,
                   active_jobs, nonserver>>

\* pipeline.process_image(path) for the next saved path
ProcessUploaded(r) ==
    LET req == requests[r]
    IN /\ req.rpc = "process"
       /\ Step(r, [results |-> Append(req.results,
                                      ProcessImageAt(req.saved_paths[req.k], upload_folder))]
                  @@ LoopNext(req, req.saved_paths, "remove"))
       /\ UNCHANGED <<upload_folder, global_pipeline, constructed, removed, batch_size,
                      active_jobs, nonserver>>

\* os.remove(path) for the next saved path; a missing file raises inside the
\* handler's try and is passed over
RemoveUploaded(r) ==
    LET req == requests[r]
        path == req.saved_paths[req.k]
    IN /\ req.rpc = "remove"
       /\ upload_folder' = [upload_folder EXCEPT ![path] = <<>>]
       /\ removed' = IF upload_folder[path] = <<>> THEN removed
                     ELSE removed \cup {[by |-> r, bytes |-> upload_folder[path]]}
       /\ Step(r, LoopNext(req, req.saved_paths, "respond"))
       /\ UNCHANGED <<global_pipeline, constructed, batch_size, active_jobs, nonserver>>

\* the JSON answer: /api/process returns its result with 200 or 500,
\* /api/batch the list of results
Respond(r) ==
    LET req == requests[r]
    IN /\ req.rpc = "respond"
       /\ Step(r, [rpc |-> "done",
                   response |-> IF req.route = "process"
                                THEN [success |-> req.results[1].success,
                                      results |-> req.results,
                                      status |-> IF req.results[1].success THEN 200 ELSE 500]
                                ELSE [success |-> TRUE, results |-> req.results,
                                      status |-> 200]])
       /\ UNCHANGED <<upload_folder, global_pipeline, constructed, removed, batch_size,
                      active_jobs, nonserver>>

NextUpload ==
    \E r \in Clients :
        \/ SaveUpload(r)
        \/ GetPipelineTest(r)
        \/ GetPipelineConstruct(r)
        \/ GetPipelineReturn(r)
        \/ ProcessUploaded(r)
        \/ RemoveUploaded(r)
        \/ Respond(r)
SpecUpload == InitUpload /\ [][NextUpload]_vars

-----------------------------------------------------------------------------
(* Progressive batch jobs: src/src/batch_processor.py and the routes
   /api/batch-progressive/start, /api/batch-progressive/<job_id>/next and
   /api/batch with more than 10 files, served by concurrent threads that share
   the module's batch_processor.  The files of a request are taken as saved;
   the time stamps of a job are left out. *)

\* the batches of start_batch_job: image_paths[i:i + size] for i in
\* range(0, len(image_paths), size); a negative step gives an empty range
Batches(paths, size) ==
    IF size > 0
    THEN [b \in 1..((Len(paths) + size - 1) \div size) |->
            SubSeq(paths, (b - 1) * size + 1, Min(b * size, Len(paths)))]
    ELSE <<>>

\* the job record start_batch_job stores, for a batch size other than 0
StartBatchJob(paths, size) ==
    [status |-> "started", total_images |-> Len(paths), processed |-> 0,
     successful |-> 0, failed |-> 0, current_batch |-> 0,
     total_batches |-> Len(Batches(paths, size)), batches |-> Batches(paths, size),
     results |-> <<>>,
     \* history: the route that made the job, the size it was split with, the
     \* size its request asked for, the calls of process_next_batch under way
     \* and whether two of them ever overlapped
     via |-> "start", split_size |-> size, requested_size |-> 0, in_progress |-> 0,
     overlapped |-> FALSE]

MaxImages == 3
MaxRequests == 3
SMALL_BATCH_LIMIT == 10
BatchSizes == {-1, 0, 2, 20}

\* the images of one upload: each has a path of its own, and at most one of
\* them is a card the pipeline fails on
JobImages(job_id, n, damaged) ==
    [i \in 1..n |-> [path |-> <<job_id, i>>, readable |-> i # damaged]]

IdleRequest ==
    [route |-> "none", rpc |-> "done", calls |-> 0, job_id |-> <<>>, size |-> 20,
     size_before |-> 20, saved_paths |-> <<>>, batch_images |-> <<>>,
     all_results |-> <<>>, response |-> <<>>]

InitJobs ==
    /\ requests = [r \in Clients |-> IdleRequest]
    /\ batch_size = 20 /\ active_jobs = <<>>
    /\ upload_folder = <<>> /\ global_pipeline = 0 /\ constructed = 0 /\ removed = {}
    /\ arg_raw_lines = <<>> /\ cleaned_lines = <<>>
    /\ pc = "serving"
    /\ arg_text = <<>>
    /\ corrected_once = <<>> /\ corrected_twice = <<>> /\ extracted_phones = <<>>
    /\ arg_ocr_results = <<>> /\ arg_lines = <<>> /\ parsed_contact = <<>>
    /\ extracted_name = <<>> /\ extracted_website = <<>>
    /\ api_keys = <<>> /\ api_answers = <<>> /\ arg_contact = <<>>
    /\ enriched = <<>> /\ attempted = {}
    /\ gemini_ocr = "None" /\ decision = "Heuristic"
    /\ image_path = "" /\ enrich = TRUE /\ force_gemini = FALSE
    /\ ocr_method = "easyocr" /\ ocr_result = <<>> /\ ocr_confidence = 0
    /\ raw_text = <<>> /\ parsed_contacts = <<>> /\ cleaned_contact = <<>>
    /\ gemini_result = <<>> /\ final_contact = <<>>
    /\ company_enrichment = <<>> /\ field_confidence = <<>> /\ result = <<>>
    /\ log = <<>> /\ vlm_calls = 0 /\ ocr_calls = 0 /\ before_merge = <<>>
    /\ bpc = "idle" /\ image_paths = <<>> /\ results = <<>> /\ success_count = 0
    /\ batch_result = <<>>

\* the requests issued so far
Issued == SumOver([r \in Clients |-> requests[r].calls], Clients)

jobvars == <<upload_folder, global_pipeline, constructed, removed, nonserver>>

\* the jobs whose id a client was told: those of the start route
KnownJobs == {j \in DOMAIN active_jobs : active_jobs[j].via = "start"}

\* a client whose last request was answered sends another one: a start with
\* a batch_size parameter, a next for a known job, or a batch of more than
\* 10 files
Arrive(r) ==
    LET req == requests[r]
        id == <<r, req.calls + 1>>
        fresh == [calls |-> req.calls + 1, response |-> <<>>, batch_images |-> <<>>,
                  all_results |-> <<>>, size_before |-> batch_size]
    IN /\ req.rpc = "done"
       /\ Issued < MaxRequests
       /\ \/ \E size \in BatchSizes, n \in 1..MaxImages, damaged \in 0..1 :
               Step(r, [route |-> "start", rpc |-> "set batch size", size |-> size,
                        job_id |-> id, saved_paths |-> JobImages(id, n, damaged)] @@ fresh)
          \/ \E job_id \in KnownJobs \cup {<<0, 0>>} :
               Step(r, [route |-> "next", rpc |-> "begin", job_id |-> job_id] @@ fresh)
          \/ Step(r, [route |-> "batch", rpc |-> "start job", job_id |-> id,
                       size |-> 20,
                       saved_paths |-> JobImages(id, SMALL_BATCH_LIMIT + 1, 1)]
                      @@ fresh)
       /\ UNCHANGED <<batch_size, active_jobs, jobvars>>

\* start_progressive_batch: "batch_processor.batch_size = batch_size"
SetBatchSize(r) ==
    /\ requests[r].rpc = "set batch size"
    /\ batch_size' = requests[r].size
    /\ Step(r, [rpc |-> "start job"])
    /\ UNCHANGED <<active_jobs, jobvars>>

\* batch_processor.start_batch_job(saved_paths) in start_progressive_batch and
\* in process_batch; range() raises ValueError for a step of 0, which either
\* handler answers with 500
StartJob(r) ==
    LET req == requests[r]
        job == [StartBatchJob(req.saved_paths, batch_size) EXCEPT
                  !.via = req.route, !.requested_size = req.size]
    IN /\ req.rpc = "start job"
       /\ IF batch_size = 0
          THEN /\ Step(r, [rpc |-> "done",
                           response |-> [success |-> FALSE, status |-> 500]])
               /\ UNCHANGED active_jobs
          ELSE /\ active_jobs' = Put(active_jobs, req.job_id, job)
               /\ Step(r, IF req.route = "start"
                          THEN [rpc |-> "done",
                                response |-> [success |-> TRUE, status |-> 200,
                                              job_id |-> req.job_id,
                                              total_files |-> Len(req.saved_paths),
                                              batch_size |-> req.size]]
                          ELSE [rpc |-> "begin"])
       /\ UNCHANGED <<batch_size, jobvars>>

\* process_next_batch up to its loop: an unknown job and a finished job
\* return None, otherwise the current batch is read and the status set
BeginBatch(r) ==
    LET req == requests[r]
        id == req.job_id
        job == active_jobs[id]
    IN /\ req.rpc = "begin"
       /\ IF id \notin DOMAIN active_jobs
          THEN /\ Step(r, IF req.route = "next"
                          THEN [rpc |-> "done",
                                response |-> [success |-> FALSE, status |-> 404]]
                          ELSE [rpc |-> "cleanup"])
               /\ UNCHANGED active_jobs
          ELSE IF job.current_batch >= job.total_batches
          THEN /\ active_jobs' = [active_jobs EXCEPT ![id].status = "completed"]
               /\ Step(r, IF req.route = "next"
                          THEN [rpc |-> "done",
                                response |-> [success |-> TRUE, status |-> 200,
                                              is_complete |-> TRUE,
                                              final_results |-> job.results]]
                          ELSE [rpc |-> "cleanup"])
          ELSE /\ active_jobs' =
                    [active_jobs EXCEPT
                       ![id].status = "processing",
                       ![id].overlapped = job.overlapped \/ job.in_progress > 0,
                       ![id].in_progress = job.in_progress + 1]
               /\ Step(r, [rpc |-> "process batch",
                           batch_images |-> job.batches[job.current_batch + 1]])
       /\ UNCHANGED <<batch_size, jobvars>>

\* what the loop of process_next_batch appends for one image
BatchResult(image) == [image |-> image.path, success |-> image.readable]

\* the rest of process_next_batch: process_image for every image of the
\* batch with the job's counters, the batch's results added to the job,
\* current_batch advanced and the batch result returned
ProcessBatch(r) ==
    LET req == requests[r]
        id == req.job_id
        job == active_jobs[id]
        batch_results == [i \in DOMAIN req.batch_images |-> BatchResult(req.batch_images[i])]
        succeeded == Cardinality({i \in DOMAIN batch_results : batch_results[i].success})
    IN /\ req.rpc = "process batch"
       /\ active_jobs' =
            [active_jobs EXCEPT
               ![id].successful = job.successful + succeeded,
               ![id].failed = job.failed + Len(batch_results) - succeeded,
               ![id].processed = job.processed + Len(batch_results),
               ![id].results = job.results \o batch_results,
               ![id].current_batch = job.current_batch + 1,
               ![id].in_progress = job.in_progress - 1]
       /\ Step(r, IF req.route = "next"
                  THEN [rpc |-> "done",
                        response |-> [success |-> TRUE, status |-> 200,
                                      batch_number |-> job.current_batch + 1,
                                      batch_results |-> batch_results,
                                      processed |-> job.processed + Len(batch_results),
                                      total |-> job.total_images,
                                      is_complete |->
                                        job.current_batch + 1 >= job.total_batches]]
                  ELSE [rpc |-> "begin",
                        all_results |-> req.all_results \o batch_results])
       /\ UNCHANGED <<batch_size, jobvars>>

\* process_batch after its loop: batch_processor.cleanup_job(job_id) and the
\* answer
CleanupJob(r) ==
    LET req == requests[r]
    IN /\ req.rpc = "cleanup"
       /\ active_jobs' = [j \in DOMAIN active_jobs \ {req.job_id} |-> active_jobs[j]]
       /\ Step(r, [rpc |-> "done",
                   response |-> [success |-> TRUE, status |-> 200,
                                 results |-> req.all_results,
                                 total |-> Len(req.all_results)]])
       /\ UNCHANGED <<batch_size, jobvars>>

NextJobs ==
    \E r \in Clients :
        \/ Arrive(r)
        \/ SetBatchSize(r)
        \/ StartJob(r)
        \/ BeginBatch(r)
        \/ ProcessBatch(r)
        \/ CleanupJob(r)
SpecJobs == InitJobs /\ [][NextJobs]_vars

-----------------------------------------------------------------------------
(* Properties *)

\* the escalation criteria written out from their statement: a confidence
\* below 0.70, fewer than 3 of the four key fields, or a corruption flag
SpecifiedCriteria(conf, r) ==
    LET populated == {f \in {"name", "email", "phone", "company"} : r[f] # <<>>}
        digits(s) == Cardinality({i \in DOMAIN s : s[i] \in Digit})
        in_local_part(i) == \A j \in 1..i : r.email[j] # "@"
    IN \/ conf < 7000
       \/ Cardinality(populated) < 3
       \/ digits(r.name) > 0
       \/ digits(r.company) > 2 /\ digits(r.company) * 10 > Len(r.company)
       \/ \E i \in DOMAIN r.email : r.email[i] \in {"1", "0"} /\ in_local_part(i)

\* C1: for every heuristic record and every aggregate OCR confidence, the
\* decision is Escalated if and only if the confidence is below 0.70, or fewer
\* than 3 key fields are populated, or the corruption check flags the record;
\* otherwise it is Accepted.
C1_EscalatedIffCriteria ==
    decision # "Heuristic" =>
        (decision = "Escalated" <=> SpecifiedCriteria(ocr_confidence, cleaned_contact))

\* C1, the case the code gets right: with the VLM collaborator configured the
\* decision follows the criteria exactly.
C1_EscalatedIffCriteriaWhenConfigured ==
    (decision # "Heuristic" /\ gemini_ocr # "None") =>
        (decision = "Escalated" <=> SpecifiedCriteria(ocr_confidence, cleaned_contact))

\* C1: scenario C (confidence 0.40, only the email populated) decided by a
\* pipeline without the VLM collaborator: the decision is Accepted.
C1_ScenarioCAccepted ==
    /\ decision = "Accepted"
    /\ gemini_ocr = "None"
    /\ ocr_confidence = 4000
    /\ cleaned_contact.email # <<>>
    /\ cleaned_contact.name = <<>>
    /\ cleaned_contact.phone = <<>>
    /\ cleaned_contact.company = <<>>

ExtractionFields ==
    {"name", "first_name", "last_name", "title", "company", "email", "phone",
     "website", "address", "linkedin", "raw_text"}

\* the running call has returned
Returned == pc = "done" /\ result # <<>>
Succeeded == Returned /\ result.success

\* C2: when process_image escalates and the VLM call succeeds, the returned
\* contact record has every extraction field exactly as the VLM result gave
\* it; a field the VLM left empty is empty in the result, whatever the
\* heuristic record held.
C2_VlmResultReplacesHeuristic ==
    (Succeeded /\ result.ocr_method = "gemini_fallback") =>
        \A f \in ExtractionFields :
            /\ result.contact_data[f] = gemini_result[f]
            /\ gemini_result[f] = <<>> => result.contact_data[f] = <<>>

\* C2 witness: an escalated run returned a record whose company is empty
\* although the heuristic record had one.
C2_Witness ==
    /\ Succeeded
    /\ result.ocr_method = "gemini_fallback"
    /\ Get(cleaned_contact, "company") # <<>>
    /\ result.contact_data.company = <<>>
    /\ result.contact_data.name # Get(cleaned_contact, "name")

HeuristicFields == {"name", "title", "company", "email", "phone", "website", "address"}

\* escalation was indicated for the heuristic record of the running call, and
\* no VLM result replaced it (no collaborator, a reported failure or an
\* exception)
Degraded ==
    /\ Returned
    /\ parsed_contacts # <<>>
    /\ ocr_method = "easyocr"
    /\ EscalationIndicated(ocr_confidence, cleaned_contact)

OrdinaryRecords ==
    {"info: Processing image", "info: Total processing time",
     "warning: Enrichment failed", "warning: Confidence scoring failed"}
\* the running call logged something about the fallback
DegradationLogged == \E i \in DOMAIN log : log[i] \notin OrdinaryRecords
\* the entries of the dict a successful run returns
OrdinaryKeys ==
    {"success", "contact_data", "all_contacts", "contacts_count", "raw_text",
     "ocr_confidence", "ocr_method", "field_confidence", "company_enrichment", "image"}
\* the returned dict says that the record is a degraded one: an entry of its
\* own, or an ocr_method other than that of an accepted heuristic record
DegradationReported ==
    \/ DOMAIN result \ OrdinaryKeys # {}
    \/ result.ocr_method # "easyocr"

\* C4: a run in which escalation was indicated but the VLM was unavailable or
\* failed is logged as a degraded outcome, and its result can be told from
\* the result of a run whose heuristic record was accepted.
C4_DegradedOutcomeIsExplicit ==
    (Degraded /\ result.success) => (DegradationLogged /\ DegradationReported)

\* C4: a degraded run of a pipeline without the VLM collaborator returned an
\* ordinary success and logged nothing about it.
C4_SilentDegradation ==
    /\ Degraded
    /\ gemini_ocr = "None"
    /\ LowConfidence(ocr_confidence)
    /\ result.success
    /\ result.ocr_method = "easyocr"
    /\ ~DegradationLogged

\* the contact record of the running call as the stages so far left it
CurrentRecord == IF final_contact # <<>> THEN final_contact ELSE cleaned_contact

\* C5: across all stages of one process_image run (heuristic extraction, VLM
\* fallback, researcher enrichment, company enrichment), a contact field that
\* holds a non-empty value is never replaced by a later stage.
C5_NoStageReplacesPopulatedField ==
    [][pc' # "force" =>
         \A f \in HeuristicFields :
            Get(CurrentRecord, f) # <<>> => Get(CurrentRecord', f) = Get(CurrentRecord, f)]_vars

\* C5 as the code has it: once the record to return is chosen (the VLM record
\* or the heuristic one), no later stage replaces a populated entry of it;
\* only confidence_score is recomputed.
C5_ChosenRecordIsOnlyFilled ==
    [][(final_contact # <<>> /\ final_contact' # <<>>) =>
         \A f \in DOMAIN final_contact :
            (f # "confidence_score" /\ Truthy(f, final_contact[f]))
                => (f \in DOMAIN final_contact' /\ final_contact'[f] = final_contact[f])]_vars

\* C5 witness: the VLM record was chosen and enrichment added entries to it.
C5_Witness ==
    /\ Succeeded
    /\ result.ocr_method = "gemini_fallback"
    /\ before_merge.name # <<>>
    /\ "email_verified" \in DOMAIN final_contact
    /\ "company_logo" \in DOMAIN final_contact

\* C6: merging researcher and company enrichment into the contact record
\* changes no entry that was non-empty before; every entry it writes was
\* empty or absent before and receives a non-empty value.
C6_MergeOnlyFillsEmptyFields ==
    pc = "score" =>
        /\ DOMAIN before_merge \subseteq DOMAIN final_contact
        /\ \A k \in DOMAIN final_contact :
             (k \notin DOMAIN before_merge \/ final_contact[k] # before_merge[k]) =>
                 /\ ~(k \in DOMAIN before_merge /\ Truthy(k, before_merge[k]))
                 /\ Truthy(k, final_contact[k])

\* C6 witness: both merges wrote entries the record did not have, and an
\* empty entry of the researcher's answer was left out.
C6_Witness ==
    /\ pc = "score"
    /\ {"email_verified", "company_info", "company_logo"} \subseteq DOMAIN final_contact
    /\ {"email_verified", "company_info", "company_logo"} \cap DOMAIN before_merge = {}
    /\ "email_deliverable" \notin DOMAIN final_contact

\* C7: process_image never raises; whatever step fails it returns a dict,
\* and when the failure prevents a result that dict has success=false and a
\* non-empty error.
C7_FailureHasNonEmptyError ==
    (Returned /\ ~result.success) => ("error" \in DOMAIN result /\ result.error # "")

\* C7: the OCR collaborator threw an exception that carries no message and
\* the returned error is the empty string.
C7_EmptyError ==
    /\ Returned
    /\ ~result.success
    /\ ocr_calls = 1
    /\ ocr_result = <<>>
    /\ result.error = ""

C9_CorrectionIsIdempotent ==
    pc = "corrected" => corrected_twice = corrected_once

\* C9: "a1b1a" is corrected to "alb1a", and that to "albla".
C9_SecondPassRewrites ==
    /\ pc = "corrected"
    /\ arg_text = <<"a", "1", "b", "1", "a">>
    /\ corrected_once = <<"a", "l", "b", "1", "a">>
    /\ corrected_twice = <<"a", "l", "b", "l", "a">>

\* C10: every string _extract_phones returns is digits with at most one
\* leading "+", and has between 10 and 15 digits.
C10_PhonesHaveTenToFifteenDigits ==
    pc = "extracted" =>
        \A i \in DOMAIN extracted_phones :
            LET phone == extracted_phones[i]
                digits == CountIn(phone, Digit)
            IN /\ \A k \in DOMAIN phone : phone[k] \in Digit \/ (k = 1 /\ phone[k] = "+")
               /\ 10 <= digits
               /\ digits <= 15

\* C10: a run of 20 digits is returned whole.
C10_TwentyDigitPhone ==
    /\ pc = "extracted"
    /\ arg_text = DigitRun(10) \o DigitRun(10)
    /\ extracted_phones = <<arg_text>>

PerFieldScores == {"name", "title", "company", "email", "phone", "website", "address", "linkedin"}

\* C11: for every contact record and every base OCR confidence in [0,1],
\* the eight per-field scores and the overall score that score_all_fields
\* returns lie in [0.0, 1.0].
C11_ScoresWithinUnitInterval ==
    pc = "scored" =>
        /\ \A f \in PerFieldScores : 0 <= field_confidence[f] /\ field_confidence[f] <= 100
        /\ 0 <= field_confidence.overall
        /\ field_confidence.overall <= 10000

\* C11 witness: a record whose populated fields all score 1.0, scored with a
\* base confidence of 1.0: the overall score is 1.0.
C11_Witness ==
    /\ pc = "scored"
    /\ ocr_confidence = 10000
    /\ field_confidence.name = 100
    /\ field_confidence.email = 100
    /\ field_confidence.phone = 100
    /\ field_confidence.overall = 10000

ExtractedFields ==
    {"name", "first_name", "last_name", "email", "phone", "company", "title", "website",
     "address", "linkedin", "twitter"}
\* C12: parse of an empty or whitespace-only text returns a ContactData with
\* confidence 0.0 whose extracted fields are all empty and for which
\* is_valid() is false, whether or not OCR results are passed along.
C12_BlankTextGivesEmptyContact ==
    (pc = "parsed" /\ Strip(arg_text) = <<>>) =>
        /\ parsed_contact.confidence_score = 0
        /\ \A k \in ExtractedFields : parsed_contact[k] = <<>>
        /\ ~ContactIsValid(parsed_contact)
C12_Witness ==
    /\ pc = "parsed"
    /\ arg_text = <<" ", "\t">>
    /\ arg_ocr_results # <<>>
    /\ parsed_contact.confidence_score = 0
    /\ parsed_contact.raw_text = arg_text

\* the lines of the card that hold a person's name
PersonLines == {k \in DOMAIN arg_lines : arg_lines[k] # NoNameLine}
\* C13: when the name candidates of a card are equally name-shaped (all of two
\* words, all in capitals or all capitalised, none a common name) and differ
\* only in their line, _extract_name returns the candidate of the earliest line.
C13_EarliestLineWins ==
    (/\ pc = "name extracted"
     /\ PersonLines # {}
     /\ \/ \A k \in PersonLines : IsUpper(arg_lines[k])
        \/ \A k \in PersonLines : ~IsUpper(arg_lines[k])) =>
        extracted_name = Title(arg_lines[CHOOSE k \in PersonLines : \A j \in PersonLines : k <= j])
\* three names in capitals on consecutive lines: the name of the third line
\* is returned
C13_LaterLineWins ==
    /\ pc = "name extracted"
    /\ arg_lines = <<CardPeople[1], CardPeople[2], CardPeople[3]>>
    /\ extracted_name = Title(CardPeople[3])

\* C20: the URL _extract_website returns, from its standard pattern or from
\* its noisy patterns, contains neither the domain of the card's e-mail
\* address nor linkedin.com, twitter.com or facebook.com.
C20_WebsiteIsNotEmailOrSocialDomain ==
    (pc = "website extracted" /\ extracted_website # <<>>) =>
        /\ EmailDomain(ExtractEmail(arg_text)) # <<>> =>
             ~Contains(extracted_website, EmailDomain(ExtractEmail(arg_text)))
        /\ ~ContainsAny(extracted_website, SocialDomains)
\* the website of the e-mail's own domain is skipped by the standard pattern
\* and returned by the noisy one
C20_EmailDomainReturned ==
    /\ pc = "website extracted"
    /\ arg_text = Join(<<<<"a", "l", "@", "a", "c", "m", "e", ".", "i", "o">>,
                         <<"w", "w", "w", ".", "a", "c", "m", "e", ".", "i", "o">>>>, <<"\n">>)
    /\ extracted_website =
         <<"h", "t", "t", "p", "s", ":", "/", "/", "w", "w", "w", ".", "a", "c", "m", "e", ".", "i", "o">>

\* the credential each request of the researcher needs
KeyOf(s) ==
    IF s \in {"hunter_email", "hunter_domain"} THEN api_keys.hunter
    ELSE IF s = "abstract" THEN api_keys.abstract
    ELSE api_keys.github
\* the requests the contact calls for, whatever the other requests answer: the
\* search by name is left out only when the search by e-mail found a profile
DueSources ==
    LET email == arg_contact.email
        domain == IF CountIn(email, {"@"}) > 0 THEN SplitOn(email, "@")[2] ELSE <<>>
    IN {s \in Sources :
          /\ KeyOf(s)
          /\ s \in {"hunter_email", "abstract", "github_email"} => email # <<>>
          /\ s = "hunter_domain" => (domain # <<>> /\ domain \notin personal_domains)
          /\ s = "github_name" =>
               /\ arg_contact.name # <<>>
               /\ ~(email # <<>> /\ api_answers.github_email = "data")}
\* the label a request leaves in enrichment_sources
LabelOf(s) ==
    IF s \in {"hunter_email", "hunter_domain"} THEN "hunter.io"
    ELSE IF s = "abstract" THEN "abstract_api" ELSE "github"
\* process_image ran the researcher and a request failed, or enrich raised
EnrichmentFailed ==
    \/ Get(final_contact, "enrichment_errors") # <<>>
    \/ InSeq("warning: Enrichment failed", log)
\* C14: the requests of enrich are independent.  A request without its
\* credential is not made and leaves neither a source nor an error; every
\* request that raises leaves exactly one error and every other request the
\* contact calls for is still made; enrich returns; and process_image never
\* returns success=false because a request failed.
C14_SourcesAreIndependent ==
    /\ pc = "enrich returned" =>
         /\ \A s \in Sources : ~KeyOf(s) => s \notin attempted
         /\ \A label \in {"hunter.io", "abstract_api", "github"} :
              InSeq(label, enriched.enrichment_sources) =>
                \E s \in attempted : LabelOf(s) = label /\ api_answers[s] = "data"
         /\ Len(enriched.enrichment_errors)
              = Cardinality({s \in attempted : api_answers[s] = "raise"})
         /\ attempted = DueSources
    /\ (pc = "done" /\ EnrichmentFailed) => result.success = TRUE
C14_Witness ==
    /\ pc = "enrich returned"
    /\ \A s \in Sources : api_answers[s] = "raise"
    /\ attempted = Sources
    /\ Len(enriched.enrichment_errors) = 5
    /\ enriched.enrichment_sources = <<>>

\* the OCR collaborator was called and produced no usable text, and no record
\* came from the VLM
OcrUnusable == ocr_result # <<>> /\ (~ocr_result.success \/ ocr_result.raw_text = <<>>)
NoVlmRecord == gemini_result = <<>> /\ ocr_method = "easyocr"
ContactRecordFields ==
    {"name", "first_name", "last_name", "title", "company", "email", "phone", "website",
     "address"}
\* C15: when OCR produces no usable text and no VLM record is obtained,
\* process_image returns a failure that has the fields of a contact record,
\* all of them empty, and confidence_score 0.
C15_OcrFailureIsEmptyContactRecord ==
    (Returned /\ OcrUnusable /\ NoVlmRecord) =>
        /\ result.success = FALSE
        /\ "confidence_score" \in DOMAIN result /\ result.confidence_score = 0
        /\ \A f \in ContactRecordFields : f \in DOMAIN result /\ result[f] = <<>>
\* the failure that is returned holds success, error, raw_text, ocr_confidence
\* and image only
C15_BareFailure ==
    /\ Returned /\ OcrUnusable /\ NoVlmRecord
    /\ result.success = FALSE
    /\ result.error = "No contact extracted"
    /\ DOMAIN result = {"success", "error", "raw_text", "ocr_confidence", "image"}

\* C16: when OCR succeeds, the extracted record has none of name, email and
\* phone and no VLM record replaces it, process_image returns success=false.
C16_NoContactIsFailure ==
    (/\ Returned /\ NoVlmRecord
     /\ ocr_result # <<>> /\ ocr_result.success
     /\ parsed_contacts # <<>>
     /\ \A f \in {"name", "email", "phone"} : Get(cleaned_contact, f) = <<>>) =>
        result.success = FALSE
\* success=true with a contact that has no name, no email and no phone
C16_EmptyContactSucceeds ==
    /\ Returned /\ NoVlmRecord
    /\ ocr_result # <<>> /\ ocr_result.success
    /\ result.success = TRUE
    /\ \A f \in {"name", "email", "phone"} : result.contact_data[f] = <<>>

\* the record came from the VLM, forced or as fallback
VlmRecord == ocr_method \in {"gemini", "gemini_fallback"}
\* C17: the confidence_score of a returned VLM record is the confidence the
\* VLM collaborator gave it (before_merge is the VLM record as the enrichment
\* steps found it).
C17_VlmConfidenceIsKept ==
    (Returned /\ result.success = TRUE /\ VlmRecord) =>
        result.contact_data.confidence_score = before_merge.confidence_score
\* a fallback record's confidence_score is overwritten by the scorer's overall
C17_VlmConfidenceRescored ==
    /\ Returned /\ result.success = TRUE
    /\ ocr_method = "gemini_fallback"
    /\ result.contact_data.confidence_score # gemini_result.confidence_score
    /\ result.contact_data.confidence_score =
           ScoreAllFields(gemini_result.confidence_score, final_contact).overall

\* C18: one process_image call invokes the VLM collaborator at most once and
\* the OCR collaborator at most once.
C18_NoCollaboratorCalledTwice == vlm_calls <= 1 /\ ocr_calls <= 1
\* a forced VLM call that gives no record is followed by the fallback's call
C18_VlmCalledTwice ==
    /\ force_gemini /\ vlm_calls = 2 /\ ocr_calls = 1
    /\ pc = "done"

\* the heuristic record was accepted: it is returned and no VLM record is used
Accepted == Returned /\ result.success = TRUE /\ ocr_method = "easyocr"
ParserFields ==
    {"name", "title", "company", "email", "phone", "website", "address", "linkedin",
     "twitter", "raw_text"}
\* C19: an accepted heuristic record is returned as-is: every field the
\* parser extracted, address, linkedin, twitter and raw_text included, has the
\* same value in the returned contact.
C19_AcceptedRecordReturnedAsIs ==
    Accepted =>
        \A f \in ParserFields :
            Get(result.contact_data, f) = Get(parsed_contacts[1], f)
\* the returned contact has lost the address, linkedin, twitter and raw_text
\* of the accepted record
C19_ParsedFieldsDropped ==
    /\ Accepted
    /\ \A f \in {"address", "linkedin", "twitter", "raw_text"} :
          /\ Get(parsed_contacts[1], f) # <<>>
          /\ Get(result.contact_data, f) = <<>>
    /\ result.raw_text = <<>>

\* C21: _extract_phones returns no number twice: no two entries of the result
\* have the same digits, whether or not they carry a leading '+'.
C21_NoPhoneTwice ==
    pc = "extracted" =>
        \A j, k \in DOMAIN extracted_phones :
            j # k => Keep(extracted_phones[j], Digit) # Keep(extracted_phones[k], Digit)
\* a number written once with a leading '+' is returned by both passes
C21_PlusNumberTwice ==
    /\ pc = "extracted"
    /\ arg_text = <<"+">> \o DigitRun(11)
    /\ extracted_phones = <<<<"+">> \o DigitRun(11), DigitRun(11)>>

\* the weights the claim states, in hundredths
C22_StatedWeights ==
    [name |-> 25, email |-> 25, phone |-> 15, company |-> 15, title |-> 10,
     website |-> 5, address |-> 3, linkedin |-> 2]

C22_Counted == {f \in PerFieldScores : field_confidence[f] > 0}

C22_WeightedSum ==
    SumOver([f \in PerFieldScores |-> field_confidence[f] * C22_StatedWeights[f]], C22_Counted)

C22_TotalWeight == SumOver(C22_StatedWeights, C22_Counted)

\* C22: score_all_fields computes overall as the weighted mean of the per-field
\* scores, with weights name 25, email 25, phone 15, company 15, title 10,
\* website 5, address 3, linkedin 2, taken only over the fields whose score is
\* nonzero, multiplied by the base OCR confidence (here rounded down to
\* 1/10000); overall is 0 when no field has a nonzero score, and overall never
\* exceeds the base OCR confidence.
C22_OverallIsWeightedMeanTimesBase ==
    pc = "scored" =>
        /\ weights = C22_StatedWeights
        /\ C22_TotalWeight = 0 => field_confidence.overall = 0
        /\ C22_TotalWeight > 0 =>
             /\ field_confidence.overall * C22_TotalWeight * 100
                  <= C22_WeightedSum * ocr_confidence
             /\ C22_WeightedSum * ocr_confidence
                  < (field_confidence.overall + 1) * C22_TotalWeight * 100
        /\ field_confidence.overall <= ocr_confidence

\* C22 witness: only name (score 1.0) and company (score below 1.0) are
\* populated, the base confidence is 0.70, and overall is the mean over those
\* two fields only, times 0.70
C22_Witness ==
    /\ pc = "scored"
    /\ ocr_confidence = 7000
    /\ C22_Counted = {"name", "company"}
    /\ field_confidence.name = 100
    /\ field_confidence.company < 100
    /\ field_confidence.overall
         = ((100 * 25 + field_confidence.company * 15) * 7000) \div (40 * 100)
    /\ field_confidence.overall > 0

\* the corrected lines of arg_raw_lines
CorrectedLines == [i \in DOMAIN arg_raw_lines |-> CorrectOcrText(arg_raw_lines[i])]

\* a corrected line is dropped as stated: fewer than 50% of its characters are
\* alphanumeric, or its trimmed length is at most 1
StatedDrop(line) == 2 * CountIn(line, Alnum) < Len(line) \/ Len(Strip(line)) <= 1

StatedKept(line) == ~StatedDrop(line)

\* C23: _postprocess_text drops a corrected line if and only if fewer than 50%
\* of its characters are alphanumeric or its trimmed length is at most 1 (so a
\* line of length 2 or more that is exactly half alphanumeric is kept), and the
\* kept lines preserve their input order.
C23_DropsOnlyBelowHalf ==
    pc = "text postprocessed" =>
        cleaned_lines
          = [i \in DOMAIN SelectSeq(CorrectedLines, StatedKept) |->
               Strip(SelectSeq(CorrectedLines, StatedKept)[i])]

\* a line of four characters of which exactly two are alphanumeric is dropped
C23_HalfAlnumLineDropped ==
    /\ pc = "text postprocessed"
    /\ arg_raw_lines = << <<"a", "b", "-", "-">> >>
    /\ cleaned_lines = <<>>

\* a confidence in 1/10000 that lies in [0.0, 1.0]
InUnitInterval(c) == 0 <= c /\ c <= 10000

\* C24: the confidence_score of a contact record is within [0.0, 1.0] after
\* every stage of the pipeline that computes it: the parser's, the
\* post-processor's (for every combination of populated fields and every
\* phone-list length, an empty phone list included) and the VLM's.
C24_ConfidenceWithinUnitInterval ==
    /\ \A i \in DOMAIN parsed_contacts : InUnitInterval(parsed_contacts[i].confidence_score)
    /\ cleaned_contact # <<>> => InUnitInterval(cleaned_contact.confidence_score)
    /\ gemini_result # <<>> => InUnitInterval(gemini_result.confidence_score)

\* the post-processor was given a record without any field and an empty
\* phone list, and attached a negative confidence to it
C24_NegativePostConfidence ==
    /\ cleaned_contact # <<>>
    /\ cleaned_contact.phone = <<>>
    /\ cleaned_contact.name = <<>> /\ cleaned_contact.email = <<>>
    /\ cleaned_contact.company = <<>> /\ cleaned_contact.title = <<>>
    /\ cleaned_contact.website = <<>>
    /\ cleaned_contact.confidence_score < 0

\* C25: every successful result of process_image, whatever its ocr_method,
\* carries a field_confidence record computed by the scorer from the final
\* contact record, and the contact's confidence_score is that record's overall
\* value (field_confidence holds it rounded to two decimals); this includes
\* the force_gemini path that skips the OCR step.
C25_SuccessCarriesFieldConfidence ==
    (pc = "done" /\ result.success) =>
        /\ result.field_confidence
             = FieldConfidenceDict(ScoreAllFields(ocr_confidence, result.contact_data))
        /\ result.field_confidence.overall
             = (result.contact_data.confidence_score + 50) \div 100

\* a forced VLM run succeeded, its result has an empty field_confidence and
\* the contact still carries the VLM's own confidence
C25_ForcedRunWithoutFieldConfidence ==
    /\ pc = "done"
    /\ force_gemini
    /\ result.success
    /\ result.ocr_method = "gemini"
    /\ ocr_result = <<>>
    /\ result.field_confidence = <<>>
    /\ result.contact_data.name # <<>>
    /\ result.contact_data.confidence_score = before_merge.confidence_score
    /\ InSeq("warning: Confidence scoring failed", log)

\* the requests that have been answered with results
Answered == {r \in DOMAIN requests : requests[r].rpc = "done" /\ requests[r].saved_paths # <<>>}

\* the uploads of request r that were saved, in order
SavedUploads(r) == SelectSeq(requests[r].files, LAMBDA f : AllowedFile(f.filename))

\* C26: the result returned for an upload is computed only from the bytes of
\* that upload: for any interleaving of concurrent /api/process and /api/batch
\* requests, and for two files of one batch, that share a sanitized file name,
\* every result comes from the bytes its own upload carried, and no request
\* deletes a file that another upload saved.
C26_ResultFromOwnUpload ==
    /\ \A r \in Answered :
         \A j \in DOMAIN requests[r].response.results :
            requests[r].response.results[j].bytes = SavedUploads(r)[j].bytes
    /\ \A d \in removed : d.bytes[1] = d.by

\* two concurrent /api/process requests whose file names sanitize to the same
\* name: the first is answered with a result computed from the bytes of the
\* second, and deleted the second's file
C26_AnsweredFromOtherUpload ==
    /\ requests # <<>>
    /\ requests[1].route = "process" /\ requests[2].route = "process"
    /\ requests[1].files[1].filename # requests[2].files[1].filename
    /\ requests[1].rpc = "done"
    /\ requests[1].response.status = 200
    /\ requests[1].response.results[1].bytes = <<2, 1>>
    /\ [by |-> 1, bytes |-> <<2, 1>>] \in removed

\* C30: for any interleaving of concurrent requests, get_pipeline constructs
\* at most one CardResearchPipeline per process, and every request uses that
\* same instance.
C30_OnePipelineInstance ==
    /\ constructed <= 1
    /\ \A r1, r2 \in DOMAIN requests :
         (requests[r1].pipeline # 0 /\ requests[r2].pipeline # 0)
            => requests[r1].pipeline = requests[r2].pipeline

\* two requests found _pipeline unset, each constructed a pipeline, and they
\* run on different instances
C30_TwoPipelines ==
    /\ requests # <<>>
    /\ constructed = 2
    /\ requests[1].pipeline # 0 /\ requests[2].pipeline # 0
    /\ requests[1].pipeline # requests[2].pipeline

\* ceil(n / size) for a positive size
CeilDiv(n, size) == (n + size - 1) \div size

\* C27: the batch size used to split a job is the one requested for that job
\* (default 20): the batch_size parameter of one start request, whether that
\* request succeeds or fails, never changes how the files of another request
\* are split or whether all of them are processed, and a start request that
\* fails leaves the shared processor state unchanged.
C27_BatchSizeIsPerJob ==
    /\ \A j \in DOMAIN active_jobs :
         active_jobs[j].requested_size > 0
            => active_jobs[j].total_batches
                 = CeilDiv(active_jobs[j].total_images, active_jobs[j].requested_size)
    /\ \A r \in DOMAIN requests :
         (requests[r].route = "batch" /\ requests[r].rpc = "done")
            => /\ requests[r].response.success
               /\ requests[r].response.total = SMALL_BATCH_LIMIT + 1
    /\ \A r \in DOMAIN requests :
         (requests[r].route = "start" /\ requests[r].rpc = "done"
            /\ ~requests[r].response.success)
            => batch_size = requests[r].size_before

\* one client alone: its start request with batch_size=0 failed, and its next
\* request, an /api/batch upload of 11 files, then failed as well with none of
\* the files processed
C27_FailedStartBreaksBatch ==
    /\ requests # <<>>
    /\ requests[2].calls = 0
    /\ requests[1].calls = 2
    /\ requests[1].route = "batch"
    /\ requests[1].rpc = "done"
    /\ requests[1].response.status = 500
    /\ batch_size = 0
    /\ active_jobs = <<>>

\* the paths in the results of a job
ResultPaths(job) == [i \in DOMAIN job.results |-> job.results[i].image]

\* C28: in every reachable state of a batch job, for any sequence and any
\* concurrent interleaving of process_next_batch calls on it: processed =
\* successful + failed, processed <= total_images, 0 <= current_batch <=
\* total_batches, and no image of the job is more than once in its results.
C28_JobCountersConsistent ==
    \A j \in DOMAIN active_jobs :
        /\ active_jobs[j].processed = active_jobs[j].successful + active_jobs[j].failed
        /\ active_jobs[j].processed <= active_jobs[j].total_images
        /\ 0 <= active_jobs[j].current_batch
        /\ active_jobs[j].current_batch <= active_jobs[j].total_batches
        /\ \A a, b \in DOMAIN active_jobs[j].results :
             a # b => active_jobs[j].results[a].image # active_jobs[j].results[b].image

\* two overlapping next calls processed the same batch of a job of three
\* images: six images are counted as processed, every image is twice in the
\* results and current_batch has passed total_batches
C28_BatchProcessedTwice ==
    \E j \in DOMAIN active_jobs :
        /\ active_jobs[j].overlapped
        /\ active_jobs[j].total_images = 3
        /\ active_jobs[j].total_batches = 1
        /\ active_jobs[j].processed = 6
        /\ active_jobs[j].current_batch = 2
        /\ Len(active_jobs[j].results) = 6
        /\ active_jobs[j].results[1] = active_jobs[j].results[4]

\* C29: every job that start_batch_job creates, for n images and any batch
\* size with which it can be created, completes under sequential
\* process_next_batch calls: a batch result is returned exactly
\* ceil(n / batch_size) times and None afterwards, and at completion
\* processed = n with exactly one result per image, in input order.
C29_SequentialJobCompletes ==
    \A j \in DOMAIN active_jobs :
        (active_jobs[j].status = "completed" /\ ~active_jobs[j].overlapped)
            => /\ active_jobs[j].processed = active_jobs[j].total_images
               /\ ResultPaths(active_jobs[j])
                    = [i \in 1..active_jobs[j].total_images |-> <<j, i>>]
               /\ active_jobs[j].split_size > 0
                    => active_jobs[j].current_batch
                         = CeilDiv(active_jobs[j].total_images, active_jobs[j].split_size)

\* a job created with batch_size=-1 for three images: its first
\* process_next_batch call returned None and marked it completed with no
\* image processed
C29_CompletedWithNothingProcessed ==
    \E j \in DOMAIN active_jobs :
        /\ active_jobs[j].split_size = -1
        /\ active_jobs[j].status = "completed"
        /\ ~active_jobs[j].overlapped
        /\ active_jobs[j].total_images = 3
        /\ active_jobs[j].total_batches = 0
        /\ active_jobs[j].processed = 0
        /\ active_jobs[j].results = <<>>

====
